---- MODULE Spec2Model ----
(***************************************************************************)
(* Unified-diff parsing and line-position mapping of the i18n review tool. *)
(*                                                                         *)
(* A patch text is a TLA+ string; a line is a string, and the characters   *)
(* of a line are read with SubSeq.  JavaScript values are modelled as      *)
(*   - arrays    -> sequences                                              *)
(*   - objects   -> records                                                *)
(*   - null      -> NULL                                                   *)
(*   - a call    -> a record [state, value] whose state is "idle" before   *)
(*                  the call, "returned" after a normal return and "threw" *)
(*                  when the call ended with an uncaught Error.            *)
(***************************************************************************)
EXTENDS Integers, Sequences, FiniteSets, TLC

VARIABLES
    diffContent,    \* the patch text handed to the parsers
    addedLines,     \* call of extractAddedLinesWithRelativeNumbers(diffContent)
    changedLines,   \* call of extractChangedLines(diffContent)  (analyzer with diff-util)
    changedLinesV1, \* call of extractChangedLines(diffContent)  (src/analyzer.js)
    parsedFiles,    \* call of parseDiff(diffContent)
    commentLines,   \* call of getCommentLineNumbers(parsedFiles)
    header,         \* the line handed to parseHunkHeader
    hunkInfo,       \* call of parseHunkHeader(header)
    calls,          \* the parser calls made so far, each with its text and result
    prFiles,        \* the file list octokit.pulls.listFiles delivers
    aiOutcome,      \* what the model call does when it is made
    aiRequest,      \* the files and valid positions sent to the model, NoRequest before
    report,         \* call of analyzePR
    reportFile,     \* the report written to ai_validations/<pr>.json, <<>> when none
    postCall,       \* call of postComments, with the line comments it prepared
    posted,         \* the line comments that reached the pull request
    command,        \* the command line given to index.js
    pc,             \* where the command's action stands
    trace,          \* the requests and parser calls the program made, in order
    reviews,        \* the reviews of the pull request as the host keeps them
    cacheFile,      \* cache/context.json with its modification time, <<>> when absent
    now,            \* the clock, in hours
    context         \* the latest call of getOriginalFileContent

\* the command-line program
cliVars == <<command, pc>>

\* the review host, the cache directory and the clock
serviceVars == <<trace, reviews, cacheFile, now, context>>

\* the state of the program around the parsers
pipelineVars == <<serviceVars, calls, prFiles, aiOutcome, aiRequest, report, reportFile,
                  postCall, posted, cliVars>>

vars == <<diffContent, addedLines, changedLines, changedLinesV1,
          parsedFiles, commentLines, header, hunkInfo, pipelineVars>>

-----------------------------------------------------------------------------
(* Bounds *)

\* longest generated hunk text, in physical lines
MaxLines == 4
\* most file sections in a generated multi-file patch
MaxFiles == 3
\* largest integer written in a hunk header of a generated input
MaxWritten == 23
\* the longest patch of header and change lines, in physical lines
MaxHeaderLines == 3
\* the number of parser calls made one after the other
MaxCalls == 3
\* the number of comments in the model's answer
MaxComments == 2
\* the number of files in a generated pull request
MaxPRFiles == 2

-----------------------------------------------------------------------------
(* JavaScript values *)

NULL == -1

Idle == [state |-> "idle", value |-> <<>>]
Returned(v) == [state |-> "returned", value |-> v]
Threw == [state |-> "threw", value |-> <<>>]

\* TRUE for every value; as the test of an IF it makes TLC evaluate a loop's
\* state at each iteration instead of at the end of the loop
Evaluated(v) == v = v

-----------------------------------------------------------------------------
(* String primitives *)

\* s.charAt(i - 1), 1-based
CharAt(s, i) == SubSeq(s, i, i)

\* s.startsWith(p)
StartsWith(s, p) == Len(s) >= Len(p) /\ SubSeq(s, 1, Len(p)) = p

\* s.substring(n)
Substring(s, n) == IF n >= Len(s) THEN "" ELSE SubSeq(s, n + 1, Len(s))

\* does the literal lit sit in s at position i
LitAt(s, i, lit) ==
    /\ i >= 1
    /\ i + Len(lit) - 1 <= Len(s)
    /\ SubSeq(s, i, i + Len(lit) - 1) = lit

IsDigit(c) == c \in {"0", "1", "2", "3", "4", "5", "6", "7", "8", "9"}

DigitVal(c) ==
    CASE c = "0" -> 0 [] c = "1" -> 1 [] c = "2" -> 2 [] c = "3" -> 3
      [] c = "4" -> 4 [] c = "5" -> 5 [] c = "6" -> 6 [] c = "7" -> 7
      [] c = "8" -> 8 [] c = "9" -> 9

\* first position at or after i that does not hold a digit (greedy \d*)
RECURSIVE DigitsEnd(_, _)
DigitsEnd(s, i) ==
    IF i <= Len(s) /\ IsDigit(CharAt(s, i)) THEN DigitsEnd(s, i + 1) ELSE i

\* parseInt of a string of decimal digits
RECURSIVE ParseIntAcc(_, _, _)
ParseIntAcc(s, i, acc) ==
    IF i > Len(s) THEN acc
    ELSE ParseIntAcc(s, i + 1, acc * 10 + DigitVal(CharAt(s, i)))

ParseInt(s) == ParseIntAcc(s, 1, 0)

\* s.indexOf(sep, i - 1) + 1, or Len(s) + 1 when sep does not occur
RECURSIVE IndexOf(_, _, _)
IndexOf(s, sep, i) ==
    IF i > Len(s) \/ CharAt(s, i) = sep THEN i ELSE IndexOf(s, sep, i + 1)

\* s.split(sep) for a one-character separator
RECURSIVE SplitFrom(_, _, _)
SplitFrom(s, sep, from) ==
    LET at == IndexOf(s, sep, from)
        piece == IF at = from THEN "" ELSE SubSeq(s, from, at - 1)
    IN  IF at > Len(s) THEN <<piece>>
        ELSE <<piece>> \o SplitFrom(s, sep, at + 1)

SplitOn(s, sep) == SplitFrom(s, sep, 1)

\* text.split('\n')
Split(s) == SplitOn(s, "\n")

\* lines.join('\n'), used to build the input texts
RECURSIVE Join(_)
Join(ls) ==
    IF Len(ls) = 0 THEN ""
    ELSE IF Len(ls) = 1 THEN ls[1]
    ELSE ls[1] \o "\n" \o Join(Tail(ls))

-----------------------------------------------------------------------------
(* Hunk-header regular expressions *)

NoMatch == [ok |-> FALSE, g1 |-> "", g2 |-> "", g3 |-> "", g4 |-> ""]

NoRange == [end |-> 0, start |-> "", count |-> ""]

\* a range whose start is s[i..e1-1], whose count would start at c0 and whose
\* digits after c0 end before e2
RangeOf(s, i, e1, c0, e2, loose) ==
    IF e1 = i THEN NoRange
    ELSE IF loose
         THEN [end |-> e2, start |-> SubSeq(s, i, e1 - 1),
               count |-> IF e2 > c0 THEN SubSeq(s, c0, e2 - 1) ELSE ""]
         ELSE IF c0 > e1 /\ e2 > c0
              THEN [end |-> e2, start |-> SubSeq(s, i, e1 - 1),
                    count |-> SubSeq(s, c0, e2 - 1)]
              ELSE [end |-> e1, start |-> SubSeq(s, i, e1 - 1), count |-> ""]

\* the position after an optional comma at e1
AfterComma(s, e1) == IF LitAt(s, e1, ",") THEN e1 + 1 ELSE e1

RangeFrom(s, i, e1, c0, loose) == RangeOf(s, i, e1, c0, DigitsEnd(s, c0), loose)

RangeAfterStart(s, i, e1, loose) == RangeFrom(s, i, e1, AfterComma(s, e1), loose)

\* One `<int>` followed by its optional count, starting at position i.
\* loose = TRUE  is  (\d+),?(\d+)?      loose = FALSE  is  \d+(?:,\d+)?
\* The result is the position after the match (0: no match) and the groups.
RangeAt(s, i, loose) == RangeAfterStart(s, i, DigitsEnd(s, i), loose)

\* the closing ` @@` after the two ranges
HeaderClosed(s, old, new) ==
    IF new.end = 0 \/ ~LitAt(s, new.end, " @@") THEN NoMatch
    ELSE [ok |-> TRUE, g1 |-> old.start, g2 |-> old.count,
          g3 |-> new.start, g4 |-> new.count]

\* ` \+` and the new range after the old range
HeaderAfterOld(s, old, loose) ==
    IF old.end = 0 \/ ~LitAt(s, old.end, " +") THEN NoMatch
    ELSE HeaderClosed(s, old, RangeAt(s, old.end + 2, loose))

\* the pattern  @@ -<range> \+<range> @@  tried at position i
HeaderAt(s, i, loose) ==
    IF ~LitAt(s, i, "@@ -") THEN NoMatch
    ELSE HeaderAfterOld(s, RangeAt(s, i + 4, loose), loose)

\* an unanchored pattern: the leftmost position where it matches
RECURSIVE HeaderSearch(_, _, _)
MatchOrSearch(m, s, i, loose) == IF m.ok THEN m ELSE HeaderSearch(s, i + 1, loose)

HeaderSearch(s, i, loose) ==
    IF i > Len(s) THEN NoMatch
    ELSE MatchOrSearch(HeaderAt(s, i, loose), s, i, loose)

\* the object parseHunkHeader builds from the match, or its Error
HunkHeaderOf(match) ==
    IF ~match.ok THEN Threw
    ELSE Returned([oldStart |-> ParseInt(match.g1),
                   oldCount |-> ParseInt(IF match.g2 = "" THEN "1" ELSE match.g2),
                   newStart |-> ParseInt(match.g3),
                   newCount |-> ParseInt(IF match.g4 = "" THEN "1" ELSE match.g4)])

\* header.match(/^@@ -(\d+),?(\d+)? \+(\d+),?(\d+)? @@/)
parseHunkHeader(h) == HunkHeaderOf(HeaderAt(h, 1, TRUE))

-----------------------------------------------------------------------------
(* diff-util: extractAddedLinesWithRelativeNumbers *)

IsHunkHeaderLine(l) == StartsWith(l, "@@")

\* the metadata test of extractAddedLinesWithRelativeNumbers
IsDiffMetadata(l) ==
    \/ StartsWith(l, "diff --git")
    \/ StartsWith(l, "index ")
    \/ StartsWith(l, "---")
    \/ StartsWith(l, "+++")
    \/ StartsWith(l, "From ")
    \/ StartsWith(l, "Date: ")
    \/ StartsWith(l, "Subject: ")

IsAddedLine(l) == StartsWith(l, "+") /\ ~StartsWith(l, "+++")

IsContextLineOrDeleted(l) == StartsWith(l, " ") \/ l = "" \/ StartsWith(l, "-")

IsContextLineNotEmpty(l) == StartsWith(l, " ")

IsContextLine(l) == StartsWith(l, " ") \/ l = ""
IsDeletedLine(l) == StartsWith(l, "-") /\ ~StartsWith(l, "---")

ExtractInitAfterCalls ==
    [relativeLine |-> Len(calls), newLineNumber |-> 0, addedLines |-> <<>>]

\* `let relativeLine = 0; let newLineNumber = 0;` inside the function
ExtractInit == [relativeLine |-> 0, newLineNumber |-> 0, addedLines |-> <<>>]

\* relativeLine++ for every physical line
CountLine(st) == [st EXCEPT !.relativeLine = st.relativeLine + 1]

\* newLineNumber is the line before the first line of the hunk
HunkResetTo(st, match) ==
    IF match.ok
    THEN [st EXCEPT !.newLineNumber = ParseInt(match.g3) - 1]
    ELSE st

HunkResetKeepingStart(st, rawLine) ==
    LET match == HeaderSearch(rawLine, 1, FALSE)
    IN  IF match.ok
        THEN [st EXCEPT !.newLineNumber = ParseInt(match.g3)]
        ELSE st

\* the hunk-header branch
HunkReset(st, rawLine) == HunkResetTo(st, HeaderSearch(rawLine, 1, FALSE))

AddLineUnstripped(st, rawLine) ==
    [st EXCEPT
        !.newLineNumber = st.newLineNumber + 1,
        !.addedLines = Append(st.addedLines,
            [relativeLine |-> st.relativeLine,
             newLine |-> st.newLineNumber + 1,
             content |-> rawLine])]

\* the added-line branch
AddLine(st, rawLine) ==
    [st EXCEPT
        !.newLineNumber = st.newLineNumber + 1,
        !.addedLines = Append(st.addedLines,
            [relativeLine |-> st.relativeLine,
             newLine |-> st.newLineNumber + 1,
             content |-> Substring(rawLine, 1)])]

\* the context-line branch
ContextLine(st) == [st EXCEPT !.newLineNumber = st.newLineNumber + 1]

ExtractLinePerHunk(st, rawLine) ==
    LET counted == CountLine(st)
    IN  IF IsHunkHeaderLine(rawLine)
        THEN [HunkReset(counted, rawLine) EXCEPT !.relativeLine = 0]
        ELSE IF IsDiffMetadata(rawLine) THEN counted
        ELSE IF IsAddedLine(rawLine) THEN AddLine(counted, rawLine)
        ELSE IF IsContextLine(rawLine) THEN ContextLine(counted)
        ELSE counted

\* one iteration of the for loop over the physical lines
ExtractLine(st, rawLine) ==
    LET counted == CountLine(st)
    IN  IF IsHunkHeaderLine(rawLine) THEN HunkReset(counted, rawLine)
        ELSE IF IsDiffMetadata(rawLine) THEN counted
        ELSE IF IsAddedLine(rawLine) THEN AddLine(counted, rawLine)
        ELSE IF IsContextLine(rawLine) THEN ContextLine(counted)
        ELSE IF IsDeletedLine(rawLine) THEN counted
        ELSE counted

RECURSIVE ExtractLoop(_, _, _)
ExtractNext(lines, i, next) ==
    IF Evaluated(next) THEN ExtractLoop(lines, i + 1, next) ELSE next

ExtractLoop(lines, i, st) ==
    IF i > Len(lines) THEN st
    ELSE ExtractNext(lines, i, ExtractLine(st, lines[i]))

extractAddedLinesWithRelativeNumbers(text) ==
    ExtractLoop(Split(text), 1, ExtractInit).addedLines

-----------------------------------------------------------------------------
(* analyzer: extractChangedLines built on diff-util *)

\* addedLines.map(line => ({ type, content, diffPosition, fileLineNumber }))
ChangedLinesOf(added) ==
    [k \in 1..Len(added) |->
        [type |-> "added",
         content |-> added[k].content,
         diffPosition |-> added[k].relativeLine,
         fileLineNumber |-> added[k].newLine]]

extractChangedLines(diff) ==
    ChangedLinesOf(extractAddedLinesWithRelativeNumbers(diff))

-----------------------------------------------------------------------------
(* src/analyzer.js: extractChangedLines with its own counters *)

ChangedV1Init == [fileLineNumber |-> 0, globalDiffPosition |-> 0, changedLines |-> <<>>]

\* fileLineNumber = parseInt(match[3])
ChangedV1Hunk(st, match) ==
    IF match.ok
    THEN [st EXCEPT !.fileLineNumber = ParseInt(match.g3)]
    ELSE st

ChangedV1Line(st, line) ==
    IF StartsWith(line, "@@")
    THEN ChangedV1Hunk(st, HeaderSearch(line, 1, TRUE))
    ELSE LET pos == st.globalDiffPosition + 1
             counted == [st EXCEPT !.globalDiffPosition = pos]
         IN  IF IsAddedLine(line)
             THEN [counted EXCEPT
                     !.changedLines = Append(st.changedLines,
                         [type |-> "added",
                          content |-> Substring(line, 1),
                          fileLineNumber |-> st.fileLineNumber,
                          diffPosition |-> pos]),
                     !.fileLineNumber = st.fileLineNumber + 1]
             ELSE IF IsDeletedLine(line) THEN counted
             ELSE IF ~StartsWith(line, "+++") /\ ~StartsWith(line, "---")
                  THEN [counted EXCEPT !.fileLineNumber = st.fileLineNumber + 1]
             ELSE counted

RECURSIVE ChangedV1Loop(_, _, _)
ChangedV1Next(lines, i, next) ==
    IF Evaluated(next) THEN ChangedV1Loop(lines, i + 1, next) ELSE next

ChangedV1Loop(lines, i, st) ==
    IF i > Len(lines) THEN st
    ELSE ChangedV1Next(lines, i, ChangedV1Line(st, lines[i]))

extractChangedLinesV1(diff) ==
    ChangedV1Loop(Split(diff), 1, ChangedV1Init).changedLines

-----------------------------------------------------------------------------
(* line-number analyzer: parseDiffLine, parseDiff, getCommentLineNumbers *)

parseDiffLine(line) ==
    IF StartsWith(line, " ")
    THEN [type |-> "normal", content |-> Substring(line, 1), oldLine |-> NULL, newLine |-> NULL]
    ELSE IF StartsWith(line, "-")
    THEN [type |-> "deleted", content |-> Substring(line, 1), oldLine |-> NULL, newLine |-> NULL]
    ELSE IF StartsWith(line, "+")
    THEN [type |-> "added", content |-> Substring(line, 1), oldLine |-> NULL, newLine |-> NULL]
    ELSE [type |-> "context", content |-> line, oldLine |-> NULL, newLine |-> NULL]

CountAllChanges(changes, t1, t2) == Len(changes)

\* currentHunk.changes.filter(c => c.type === t1 || c.type === t2).length
CountTypes(changes, t1, t2) ==
    Cardinality({k \in 1..Len(changes) : changes[k].type \in {t1, t2}})

\* currentFile and currentHunk are <<>> for null and a one-element sequence
\* for an object
ParseInit ==
    [threw |-> FALSE, files |-> <<>>, currentFile |-> <<>>,
     currentHunk |-> <<>>, relativeLine |-> 0]

\* the metadata test of parseDiff
IsSkippedHeader(l) ==
    \/ StartsWith(l, "---")
    \/ StartsWith(l, "+++")
    \/ StartsWith(l, "index ")
    \/ StartsWith(l, "From ")
    \/ StartsWith(l, "Date: ")
    \/ StartsWith(l, "Subject: ")

\* currentFile.hunks.push(currentHunk) when a hunk is open
PushOpenHunk(file, hunk) ==
    IF Len(hunk) = 0 THEN file
    ELSE [file EXCEPT !.hunks = Append(file.hunks, hunk[1])]

ParseFileStartKeepingCounter(st, line) ==
    LET parts == SplitOn(line, " ")
    IN  IF Len(parts) < 3 THEN [st EXCEPT !.threw = TRUE]
        ELSE [st EXCEPT
                !.files = IF Len(st.currentFile) = 0 THEN st.files
                          ELSE Append(st.files, st.currentFile[1]),
                !.currentFile = <<[filename |-> Substring(parts[3], 2),
                                   hunks |-> <<>>,
                                   lineMappings |-> <<>>]>>,
                !.currentHunk = <<>>]

\* the body of `if (line.startsWith('diff --git'))`
ParseFileStart(st, line) ==
    LET parts == SplitOn(line, " ")
    IN  IF Len(parts) < 3 THEN [st EXCEPT !.threw = TRUE]
        ELSE [st EXCEPT
                !.files = IF Len(st.currentFile) = 0 THEN st.files
                          ELSE Append(st.files, st.currentFile[1]),
                !.currentFile = <<[filename |-> Substring(parts[3], 2),
                                   hunks |-> <<>>,
                                   lineMappings |-> <<>>]>>,
                !.currentHunk = <<>>,
                !.relativeLine = 0]

\* the body of `if (line.startsWith('@@'))`
OpenHunk(st, parsed) ==
    IF parsed.state = "threw" THEN [st EXCEPT !.threw = TRUE]
    ELSE [st EXCEPT
            !.currentFile = <<PushOpenHunk(st.currentFile[1], st.currentHunk)>>,
            !.currentHunk = <<[header |-> parsed.value,
                               changes |-> <<>>,
                               relativeLineStart |-> st.relativeLine]>>]

ParseHunkStart(st, line) ==
    IF Len(st.currentFile) = 0 THEN st
    ELSE OpenHunk(st, parseHunkHeader(line))

\* parsedLine.oldLine and parsedLine.newLine by the type of the line
NumberedLine(raw, oldLine, newLine) ==
    IF raw.type = "normal" THEN [raw EXCEPT !.oldLine = oldLine, !.newLine = newLine]
    ELSE IF raw.type = "deleted" THEN [raw EXCEPT !.oldLine = oldLine]
    ELSE IF raw.type = "added" THEN [raw EXCEPT !.newLine = newLine]
    ELSE raw

\* relativeLine++ for a normal and for an added line
CountedLine(relativeLine, raw) ==
    IF raw.type \in {"normal", "added"} THEN relativeLine + 1 ELSE relativeLine

\* currentHunk.changes.push(parsedLine) and the lineMappings.push of an added line
PushChange(st, hunk, file, relativeLine, parsedLine) ==
    [st EXCEPT
            !.relativeLine = relativeLine,
            !.currentHunk = <<[hunk EXCEPT !.changes = Append(hunk.changes, parsedLine)]>>,
            !.currentFile =
                IF parsedLine.type = "added"
                THEN <<[file EXCEPT !.lineMappings = Append(file.lineMappings,
                            [relativeLine |-> relativeLine,
                             newLine |-> parsedLine.newLine,
                             content |-> parsedLine.content,
                             type |-> "added"])]>>
                ELSE st.currentFile]

ParseChangeIn(st, hunk, raw) ==
    PushChange(st, hunk, st.currentFile[1], CountedLine(st.relativeLine, raw),
               NumberedLine(raw,
                   hunk.header.oldStart + CountTypes(hunk.changes, "normal", "deleted"),
                   hunk.header.newStart + CountTypes(hunk.changes, "normal", "added")))

\* the body of `if (currentHunk && (' ' | '-' | '+'))`
ParseChange(st, line) == ParseChangeIn(st, st.currentHunk[1], parseDiffLine(line))

\* one iteration of the for loop of parseDiff
ParseLine(st, line) ==
    IF StartsWith(line, "diff --git") THEN ParseFileStart(st, line)
    ELSE IF StartsWith(line, "@@") THEN ParseHunkStart(st, line)
    ELSE IF IsSkippedHeader(line) THEN st
    ELSE IF /\ Len(st.currentHunk) > 0
            /\ (StartsWith(line, " ") \/ StartsWith(line, "-") \/ StartsWith(line, "+"))
         THEN ParseChange(st, line)
    ELSE st

RECURSIVE ParseLoop(_, _, _)
ParseNext(lines, i, next) ==
    IF Evaluated(next) THEN ParseLoop(lines, i + 1, next) ELSE next

ParseLoop(lines, i, st) ==
    IF i > Len(lines) \/ st.threw THEN st
    ELSE ParseNext(lines, i, ParseLine(st, lines[i]))

\* "Add the last hunk and file"
ParseFinish(st) ==
    IF Len(st.currentFile) = 0 THEN st.files
    ELSE Append(st.files, PushOpenHunk(st.currentFile[1], st.currentHunk))

\* `return files`, unless parseHunkHeader threw on the way
ParseOutcome(st) == IF st.threw THEN Threw ELSE Returned(ParseFinish(st))

parseDiff(text) == ParseOutcome(ParseLoop(Split(text), 1, ParseInit))

\* commentLines.push(...) for one file
FileCommentLines(file) ==
    [k \in 1..Len(file.lineMappings) |->
        [filename |-> file.filename,
         line |-> file.lineMappings[k].relativeLine,
         content |-> file.lineMappings[k].content,
         newLine |-> file.lineMappings[k].newLine]]

RECURSIVE getCommentLineNumbers(_)
getCommentLineNumbers(files) ==
    IF Len(files) = 0 THEN <<>>
    ELSE FileCommentLines(files[1]) \o getCommentLineNumbers(Tail(files))

-----------------------------------------------------------------------------
(* JSON values of the model's answer *)

Undefined == [t |-> "undefined"]
JNull == [t |-> "null"]
Num(n) == [t |-> "number", n |-> n]
Str(x) == [t |-> "string", s |-> x]
Arr(items) == [t |-> "array", items |-> items]

\* the truthiness of a value in `if (v)` and `!v`
Truthy(v) ==
    CASE v.t = "undefined" -> FALSE
      [] v.t = "null" -> FALSE
      [] v.t = "number" -> v.n # 0
      [] v.t = "string" -> v.s # ""
      [] OTHER -> TRUE

\* n === v for a number n
StrictEqualsNumber(n, v) == v.t = "number" /\ v.n = n

-----------------------------------------------------------------------------
(* analyzer with diff-util: getOriginalFileContent and its cache file *)

\* an entry of the request log: the operation, the file it is about, its
\* arguments and whether it succeeded
Req(name, args, ok) == [op |-> name, file |-> "", args |-> args, ok |-> ok]
Op(name, file) == [op |-> name, file |-> file, args |-> <<>>, ok |-> TRUE]

ContextPath == "ghost/i18n/locales/context.json"

\* 24 * 60 * 60 * 1000 milliseconds, the clock of the model counting hours
CACHE_EXPIRY == 24

NoContextCall == [state |-> "idle", value |-> <<>>, fetched |-> FALSE, n |-> 0]

CacheNeverExpires(file, clock) == Len(file) > 0

\* fs.stat succeeded and `age < CACHE_EXPIRY`
CacheIsFresh(file, clock) ==
    Len(file) > 0 /\ clock - file[1].mtime < CACHE_EXPIRY

\* octokit.repos.getContent, the decoding and fs.writeFile; an error goes to
\* the outer catch, which returns null
FetchContext(file, clock, host) ==
    IF host.ok
    THEN [content |-> <<host.content>>, fetched |-> TRUE,
          file |-> <<[content |-> host.content, mtime |-> clock]>>]
    ELSE [content |-> <<>>, fetched |-> TRUE, file |-> file]

\* the content returned (<<>> for null), whether the host was contacted, and
\* the cache file afterwards; the filename parameter is not used by the code
getOriginalFileContent(file, clock, host) ==
    IF CacheIsFresh(file, clock)
    THEN [content |-> <<file[1].content>>, fetched |-> FALSE, file |-> file]
    ELSE FetchContext(file, clock, host)

\* the requests of one call of getOriginalFileContent
ContextTrace(ctx) ==
    IF ctx.fetched
    THEN <<Op("getOriginalFileContent", ContextPath), Op("repos.getContent", ContextPath)>>
    ELSE <<Op("getOriginalFileContent", ContextPath)>>

-----------------------------------------------------------------------------
(* analyzer with diff-util: analyzePR and analyzeAllFilesWithAI *)

I18nPrefix == "ghost/i18n/locales/"

\* `.` matches any character but a line terminator
NoLineTerminator(x) == \A i \in 1..Len(x) : CharAt(x, i) \notin {"\n", "\r"}

\* /^ghost\/i18n\/locales\/.*\.json$/.test(filename)
I18nPattern(filename) ==
    /\ StartsWith(filename, I18nPrefix)
    /\ Len(filename) >= Len(I18nPrefix) + Len(".json")
    /\ SubSeq(filename, Len(filename) - Len(".json") + 1, Len(filename)) = ".json"
    /\ NoLineTerminator(filename)

AllAsNonI18n(files) == files

RelevantFiles(files) == SelectSeq(files, LAMBDA file : I18nPattern(file.filename))
NonI18nFiles(files) == SelectSeq(files, LAMBDA file : ~I18nPattern(file.filename))

\* `if (!diff)`: file.patch is <<>> when the field is missing
NoDiff(file) == Len(file.patch) = 0 \/ file.patch[1] = ""

\* the entry pushed to allFileChanges
FileChangeOf(file, lines) ==
    [filename |-> file.filename, status |-> file.status, changedLines |-> lines]

\* the body of `for (const file of relevantFiles)` after `if (!diff) continue`
PushFileChange(all, file, lines) ==
    IF Len(lines) = 0 THEN all ELSE Append(all, FileChangeOf(file, lines))

RECURSIVE CollectFileChanges(_, _, _)
CollectNext(relevant, i, next) ==
    IF Evaluated(next) THEN CollectFileChanges(relevant, i + 1, next) ELSE next

CollectUntilNoDiff(relevant, i, all) ==
    IF i > Len(relevant) THEN all
    ELSE IF NoDiff(relevant[i]) THEN all
    ELSE CollectNext(relevant, i,
             PushFileChange(all, relevant[i], extractChangedLines(relevant[i].patch[1])))

CollectFileChanges(relevant, i, all) ==
    IF i > Len(relevant) THEN all
    ELSE IF NoDiff(relevant[i]) THEN CollectFileChanges(relevant, i + 1, all)
    ELSE CollectNext(relevant, i,
             PushFileChange(all, relevant[i], extractChangedLines(relevant[i].patch[1])))

AddedOf(lines) == SelectSeq(lines, LAMBDA line : line.type = "added")

FilesWithChanges(all) == SelectSeq(all, LAMBDA file : Len(AddedOf(file.changedLines)) > 0)

\* file.changedLines.filter(added).map(line => ({ filename, diffPosition }))
FilePositions(file) ==
    [k \in 1..Len(AddedOf(file.changedLines)) |->
        [filename |-> file.filename,
         diffPosition |-> AddedOf(file.changedLines)[k].diffPosition]]

\* filesWithChanges.flatMap(...)
RECURSIVE ValidPositions(_)
ValidPositions(files) ==
    IF Len(files) = 0 THEN <<>>
    ELSE FilePositions(files[1]) \o ValidPositions(Tail(files))

NoRequest == [sent |-> FALSE, files |-> <<>>, validPositions |-> <<>>]

Filenames(files) == [k \in 1..Len(files) |-> files[k].filename]

\* what the prompt of the one model call carries
RequestWith(files) ==
    IF Len(files) = 0 THEN NoRequest
    ELSE [sent |-> TRUE, files |-> Filenames(files),
          validPositions |-> ValidPositions(files)]

AiRequestOf(all) == RequestWith(FilesWithChanges(all))

IsValidFilename(validPositions, comment) ==
    \E k \in 1..Len(validPositions) : validPositions[k].filename = comment.filename

\* validPositions.some(pos => pos.filename === comment.filename &&
\*                            pos.diffPosition === comment.diffPosition)
IsValidPosition(validPositions, comment) ==
    \E k \in 1..Len(validPositions) :
        /\ validPositions[k].filename = comment.filename
        /\ StrictEqualsNumber(validPositions[k].diffPosition, comment.diffPosition)

AiFailed == [comments |-> Arr(<<>>), overall |-> Str("AI analysis failed")]

\* the parsed answer from `if (aiResponse.comments)` on; a TypeError goes to
\* the catch block
FilterComments(validPositions, aiResponse) ==
    IF aiResponse.t # "object" THEN
        IF aiResponse.t = "null" THEN AiFailed
        ELSE [comments |-> Undefined, overall |-> Undefined]
    ELSE IF ~Truthy(aiResponse.comments) THEN
        [comments |-> aiResponse.comments, overall |-> aiResponse.overall]
    ELSE IF aiResponse.comments.t # "array" THEN AiFailed
    ELSE [comments |-> Arr(SelectSeq(aiResponse.comments.items,
                             LAMBDA comment : IsValidPosition(validPositions, comment))),
          overall |-> aiResponse.overall]

\* the try block around the model call
AiAnswer(validPositions, outcome) ==
    CASE outcome.kind = "throws" -> AiFailed
      [] outcome.kind \in {"noContent", "refusal"} ->
            [comments |-> Arr(<<>>), overall |-> Str("AI analysis failed - no valid response")]
      [] outcome.kind = "notJson" -> AiFailed
      [] outcome.kind = "json" -> FilterComments(validPositions, outcome.value)

AnswerTo(request, outcome) ==
    IF ~request.sent
    THEN [comments |-> Arr(<<>>), overall |-> Str("No added translations to analyze")]
    ELSE AiAnswer(request.validPositions, outcome)

analyzeAllFilesWithAI(all, outcome) == AnswerTo(AiRequestOf(all), outcome)

BaseComment == "My AI helper left you a few comments."

OverallComment(aiAnalysis) ==
    IF Truthy(aiAnalysis.overall) /\ aiAnalysis.overall.t = "string"
    THEN BaseComment \o "\n\nAI: " \o aiAnalysis.overall.s
    ELSE BaseComment

\* analysisResults.push(...) for every entry of allFileChanges
AnalysisResults(all, comments) ==
    [k \in 1..Len(all) |->
        [filename |-> all[k].filename,
         status |-> all[k].status,
         changedLines |-> all[k].changedLines,
         comments |-> SelectSeq(comments,
                          LAMBDA comment : comment.filename = all[k].filename)]]

RECURSIVE TotalComments(_)
TotalComments(results) ==
    IF Len(results) = 0 THEN 0
    ELSE Len(results[1].comments) + TotalComments(Tail(results))

ReportOf(files, relevant, nonI18n, results, overallComment) ==
    [files |-> results,
     skippedFiles |-> [k \in 1..Len(nonI18n) |->
                          [filename |-> nonI18n[k].filename, status |-> nonI18n[k].status]],
     overallComment |-> overallComment,
     summary |-> [totalFiles |-> Len(files),
                  i18nFiles |-> Len(relevant),
                  skippedFiles |-> Len(nonI18n),
                  filesWithComments |->
                      Len(SelectSeq(results, LAMBDA r : Len(r.comments) > 0)),
                  totalComments |-> TotalComments(results)]]

\* fs.writeFile(outputFile, JSON.stringify(report)) and `return report`
WriteReport(request, rep) ==
    [result |-> Returned(<<rep>>), request |-> request, written |-> <<rep>>]

\* from `aiAnalysis.comments.filter(...)` on: a TypeError leaves analyzePR
ProcessAnswer(files, relevant, nonI18n, all, request, aiAnalysis) ==
    IF aiAnalysis.comments.t # "array"
    THEN [result |-> Threw, request |-> request, written |-> <<>>]
    ELSE WriteReport(request,
             ReportOf(files, relevant, nonI18n,
                      AnalysisResults(all, aiAnalysis.comments.items),
                      OverallComment(aiAnalysis)))

AnalyzeChanges(files, relevant, nonI18n, all, outcome) ==
    ProcessAnswer(files, relevant, nonI18n, all, AiRequestOf(all),
                  analyzeAllFilesWithAI(all, outcome))

\* `return null` when no file matches, <<>> standing for null
AnalyzeRelevant(files, relevant, nonI18n, outcome) ==
    IF Len(relevant) = 0
    THEN [result |-> Returned(<<>>), request |-> NoRequest, written |-> <<>>]
    ELSE AnalyzeChanges(files, relevant, nonI18n,
                        CollectFileChanges(relevant, 1, <<>>), outcome)

analyzePR(files, outcome) ==
    AnalyzeRelevant(files, RelevantFiles(files), NonI18nFiles(files), outcome)

\* the requests of one pass of `for (const file of relevantFiles)`
FileTrace(file, lines) ==
    IF Len(lines) = 0 THEN <<Op("extractChangedLines", file.filename)>>
    ELSE <<Op("extractChangedLines", file.filename),
           Op("getCurrentFileContent", file.filename)>>

RECURSIVE ParseTrace(_, _)
ParseTrace(relevant, i) ==
    IF i > Len(relevant) THEN <<>>
    ELSE IF NoDiff(relevant[i]) THEN ParseTrace(relevant, i + 1)
    ELSE FileTrace(relevant[i], extractChangedLines(relevant[i].patch[1]))
             \o ParseTrace(relevant, i + 1)

ModelCallPerFile(request) ==
    [k \in 1..Len(request.files) |-> Op("chat.completions.parse", request.files[k])]

\* openai.beta.chat.completions.parse, after the early return of
\* analyzeAllFilesWithAI
ModelCallTrace(request) ==
    IF request.sent THEN <<Op("chat.completions.parse", "")>> ELSE <<>>

WriteTrace(result) ==
    IF result.state = "returned" THEN <<Op("fs.writeFile", "")>> ELSE <<>>

\* the requests of analyzePR once it has the file list
RelevantTrace(relevant, ctx, done) ==
    IF Len(relevant) = 0 THEN <<>>
    ELSE ContextTrace(ctx) \o ParseTrace(relevant, 1)
             \o ModelCallTrace(done.request) \o WriteTrace(done.result)

AnalyzeTrace(files, ctx, done) ==
    <<Op("pulls.get", ""), Op("pulls.listFiles", "")>>
        \o RelevantTrace(RelevantFiles(files), ctx, done)

-----------------------------------------------------------------------------
(* github.js: postComments *)

RECURSIVE LookupPosition(_, _, _)
LookupPosition(lines, k, n) ==
    IF k = 0 THEN <<>>
    ELSE IF lines[k].diffPosition = n THEN <<lines[k].diffPosition>>
    ELSE LookupPosition(lines, k - 1, n)

\* posToLine.get(n) after the loop of posToLine.set over changedLines, the
\* last entry of a position winning; <<>> for undefined
RECURSIVE LookupLine(_, _, _)
LookupLine(lines, k, n) ==
    IF k = 0 THEN <<>>
    ELSE IF lines[k].diffPosition = n THEN <<lines[k].fileLineNumber>>
    ELSE LookupLine(lines, k - 1, n)

\* const lineNumber = posToLine.get(comment.diffPosition)
LineNumberOf(file, comment) ==
    IF comment.diffPosition.t # "number" THEN <<>>
    ELSE LookupLine(file.changedLines, Len(file.changedLines), comment.diffPosition.n)

\* `typeof lineNumber === 'number' && lineNumber > 0`
IsPostable(lineNumber) == Len(lineNumber) = 1 /\ lineNumber[1] > 0

\* formatLineComment: getIssueIcon calls type.toLowerCase()
FormatThrows(comment) == comment.type.t # "string"

LineComment(file, comment, lineNumber) ==
    [path |-> file.filename, line |-> lineNumber[1], side |-> "RIGHT",
     body |-> "AI: " \o comment.message \o "\n\n"]

MapInit == [threw |-> FALSE, allComments |-> <<>>]

MapCommentOrThrow(st, file, comment, lineNumber) ==
    IF ~IsPostable(lineNumber) \/ FormatThrows(comment) THEN [st EXCEPT !.threw = TRUE]
    ELSE [st EXCEPT !.allComments = Append(st.allComments,
                                           LineComment(file, comment, lineNumber))]

\* the body of `for (const comment of file.comments)`
MapComment(st, file, comment, lineNumber) ==
    IF ~IsPostable(lineNumber) THEN st
    ELSE IF FormatThrows(comment) THEN [st EXCEPT !.threw = TRUE]
    ELSE [st EXCEPT !.allComments = Append(st.allComments,
                                           LineComment(file, comment, lineNumber))]

RECURSIVE MapFileComments(_, _, _)
MapFileNext(file, i, next) ==
    IF Evaluated(next) THEN MapFileComments(file, i + 1, next) ELSE next

MapFileComments(file, i, st) ==
    IF i > Len(file.comments) \/ st.threw THEN st
    ELSE MapFileNext(file, i,
             MapComment(st, file, file.comments[i], LineNumberOf(file, file.comments[i])))

\* `for (const file of report.files)`
RECURSIVE MapFiles(_, _, _)
MapFilesNext(files, i, next) ==
    IF Evaluated(next) THEN MapFiles(files, i + 1, next) ELSE next

MapFiles(files, i, st) ==
    IF i > Len(files) \/ st.threw THEN st
    ELSE MapFilesNext(files, i, MapFileComments(files[i], 1, st))

\* `allComments.length === 0 && (!overallComment || overallComment.length === 0)`
NoCommentsToPost(allComments, overallComment) ==
    Len(allComments) = 0 /\ overallComment = ""

\* from the early return on: what is handed to the review API, `send` telling
\* whether the try block is reached
PrepareReview(rep, st) ==
    IF st.threw THEN [result |-> Threw, toPost |-> <<>>, send |-> FALSE, overall |-> ""]
    ELSE [result |-> Returned(st.allComments),
          toPost |-> st.allComments,
          send |-> ~NoCommentsToPost(st.allComments, rep.overallComment),
          overall |-> rep.overallComment]

\* fs.readFile rejects when there is no report file
postComments(file) ==
    IF Len(file) = 0 THEN [result |-> Threw, toPost |-> <<>>, send |-> FALSE, overall |-> ""]
    ELSE PrepareReview(file[1], MapFiles(file[1].files, 1, MapInit))

-----------------------------------------------------------------------------
(* github.js: the review requests of postComments and deleteEmptyPendingReview *)

\* pr.head.sha
HeadSha == "sha-head"

\* the icon at the head of the text is left out
formatOverallComment(overall) ==
    overall \o "\n\n---\n*Drafted with my new i18n tooling - feedback welcome*"

\* the run of a function against the review API: the reviews on the host, the
\* requests made, the line comments that arrived, and whether a request
\* failed and sent the run to the catch block
ReviewInit(revs) ==
    [reviews |-> revs, log |-> <<>>, delivered |-> <<>>, failed |-> FALSE]

\* failAt numbers the request of the run that the host rejects, 0 for none
Fails(st, failAt) == Len(st.log) + 1 = failAt

\* `await octokit.pulls.<name>(args)`
Ask(st, name, args, failAt) ==
    [st EXCEPT !.log = Append(st.log, Req(name, args, ~Fails(st, failAt))),
               !.failed = Fails(st, failAt)]

\* existingReviews.find(review => review.state === 'PENDING'), 0 when none
RECURSIVE PendingFrom(_, _)
PendingFrom(revs, k) ==
    IF k > Len(revs) THEN 0
    ELSE IF revs[k].state = "PENDING" THEN k
    ELSE PendingFrom(revs, k + 1)

PendingReview(revs) == PendingFrom(revs, 1)

CommentArgs(review, comment) ==
    [body |-> comment.body, commit_id |-> review.commit_id, path |-> comment.path,
     line |-> comment.line, side |-> comment.side]

\* the host adds the comment to the pending review
CommentAdded(asked, p, comment) ==
    IF asked.failed THEN asked
    ELSE [asked EXCEPT !.reviews[p].comments = Append(asked.reviews[p].comments, comment),
                       !.delivered = Append(asked.delivered, comment)]

CreateReviewComment(st, p, comment, failAt) ==
    CommentAdded(Ask(st, "createReviewComment", CommentArgs(st.reviews[p], comment), failAt),
                 p, comment)

\* `for (const comment of allComments)`
RECURSIVE AddComments(_, _, _, _, _)
AddCommentsNext(p, comments, i, failAt, next) ==
    IF Evaluated(next) THEN AddComments(next, p, comments, i + 1, failAt) ELSE next

AddComments(st, p, comments, i, failAt) ==
    IF i > Len(comments) \/ st.failed THEN st
    ELSE AddCommentsNext(p, comments, i, failAt,
                         CreateReviewComment(st, p, comments[i], failAt))

NewBody(body, overallComment) ==
    IF body # "" THEN body \o "\n\n---\n" \o formatOverallComment(overallComment)
    ELSE formatOverallComment(overallComment)

BodyUpdated(asked, p, body) ==
    IF asked.failed THEN asked ELSE [asked EXCEPT !.reviews[p].body = body]

\* `if (overallComment)` and octokit.pulls.updateReview
UpdateBody(st, p, overallComment, failAt) ==
    IF st.failed \/ overallComment = "" THEN st
    ELSE BodyUpdated(Ask(st, "updateReview",
                         [review_id |-> st.reviews[p].id,
                          body |-> NewBody(st.reviews[p].body, overallComment)], failAt),
                     p, NewBody(st.reviews[p].body, overallComment))

\* the branch `if (pendingReview)`
UpdatePending(st, p, comments, overallComment, failAt) ==
    UpdateBody(AddComments(st, p, comments, 1, failAt), p, overallComment, failAt)

\* reviewBody, <<>> for undefined; no event is given
ReviewArgs(headSha, comments, overallComment) ==
    [commit_id |-> headSha, comments |-> comments,
     body |-> IF overallComment # "" THEN <<formatOverallComment(overallComment)>>
              ELSE <<>>,
     event |-> <<>>]

\* a review created without event is a draft of the caller
ReviewCreated(asked, commit, args) ==
    IF asked.failed THEN asked
    ELSE [asked EXCEPT
            !.reviews = Append(asked.reviews,
                [id |-> Len(asked.reviews) + 1,
                 state |-> IF Len(args.event) = 0 THEN "PENDING" ELSE args.event[1],
                 commit_id |-> commit,
                 body |-> IF Len(args.body) = 0 THEN "" ELSE args.body[1],
                 comments |-> args.comments]),
            !.delivered = asked.delivered \o args.comments]

\* the else branch: octokit.pulls.createReview
CreateReview(st, args, failAt) ==
    ReviewCreated(Ask(st, "createReview", args, failAt), args.commit_id, args)

AlwaysCreateReview(st, headSha, comments, overallComment, failAt) ==
    IF st.failed THEN st
    ELSE CreateReview(st, ReviewArgs(headSha, comments, overallComment), failAt)

\* the try block after listReviews
AfterListReviews(st, headSha, comments, overallComment, failAt) ==
    IF st.failed THEN st
    ELSE IF PendingReview(st.reviews) > 0
    THEN UpdatePending(st, PendingReview(st.reviews), comments, overallComment, failAt)
    ELSE CreateReview(st, ReviewArgs(headSha, comments, overallComment), failAt)

\* the try block of postComments
PostReview(revs, headSha, comments, overallComment, failAt) ==
    AfterListReviews(Ask(ReviewInit(revs), "listReviews", <<>>, failAt),
                     headSha, comments, overallComment, failAt)

\* postComments from the early return on
ReviewPhase(done, revs, failAt) ==
    IF done.send THEN PostReview(revs, HeadSha, done.toPost, done.overall, failAt)
    ELSE ReviewInit(revs)

\* the requests of postComments: fs.readFile, pulls.get, the review requests
PostTrace(file, sent) ==
    IF Len(file) = 0 THEN <<Op("fs.readFile", "")>>
    ELSE <<Op("fs.readFile", ""), Op("pulls.get", "")>> \o sent.log

ReviewDeleted(asked, p) ==
    IF asked.failed THEN asked
    ELSE [asked EXCEPT !.reviews = SubSeq(asked.reviews, 1, p - 1)
                                       \o SubSeq(asked.reviews, p + 1, Len(asked.reviews))]

DeleteWithComments(st, p, failAt) ==
    IF st.failed THEN st
    ELSE ReviewDeleted(Ask(st, "deletePendingReview", [review_id |-> st.reviews[p].id],
                           failAt), p)

\* `if (comments.length === 0)` after listCommentsForReview
DeleteIfEmpty(st, p, failAt) ==
    IF st.failed THEN st
    ELSE IF Len(st.reviews[p].comments) = 0
    THEN ReviewDeleted(Ask(st, "deletePendingReview", [review_id |-> st.reviews[p].id],
                           failAt), p)
    ELSE st

ListComments(st, p, failAt) ==
    DeleteIfEmpty(Ask(st, "listCommentsForReview", [review_id |-> st.reviews[p].id],
                      failAt), p, failAt)

DeleteAfterList(st, failAt) ==
    IF st.failed THEN st
    ELSE IF PendingReview(st.reviews) = 0 THEN st
    ELSE ListComments(st, PendingReview(st.reviews), failAt)

\* the whole body is in a try block whose catch block logs the error
deleteEmptyPendingReview(revs, failAt) ==
    [result |-> Returned(<<>>),
     host |-> DeleteAfterList(Ask(ReviewInit(revs), "listReviews", <<>>, failAt), failAt)]

-----------------------------------------------------------------------------
(* postComments anchoring its comments by diff position, the second version
   of the file that holds two versions of github.js *)

\* `typeof comment.diffPosition === 'number' && comment.diffPosition > 0`
HasPosition(comment) ==
    comment.diffPosition.t = "number" /\ comment.diffPosition.n > 0

PositionComment(file, comment) ==
    [path |-> file.filename, position |-> comment.diffPosition.n,
     body |-> "AI: " \o comment.message \o "\n\n"]

\* the body of `for (const comment of file.comments)`
MapByPosition(st, file, comment) ==
    IF ~HasPosition(comment) THEN st
    ELSE IF FormatThrows(comment) THEN [st EXCEPT !.threw = TRUE]
    ELSE [st EXCEPT !.allComments = Append(st.allComments, PositionComment(file, comment))]

RECURSIVE PositionFileComments(_, _, _)
PositionFileNext(file, i, next) ==
    IF Evaluated(next) THEN PositionFileComments(file, i + 1, next) ELSE next

PositionFileComments(file, i, st) ==
    IF i > Len(file.comments) \/ st.threw THEN st
    ELSE PositionFileNext(file, i, MapByPosition(st, file, file.comments[i]))

RECURSIVE PositionFiles(_, _, _)
PositionFilesNext(files, i, next) ==
    IF Evaluated(next) THEN PositionFiles(files, i + 1, next) ELSE next

PositionFiles(files, i, st) ==
    IF i > Len(files) \/ st.threw THEN st
    ELSE PositionFilesNext(files, i, PositionFileComments(files[i], 1, st))

\* `if (allComments.length === 0 && overallComments.length === 0)`: the name
\* overallComments is declared nowhere in this version, so its evaluation,
\* reached when allComments is empty, raises a ReferenceError
PrepareByPosition(rep, st) ==
    IF st.threw \/ Len(st.allComments) = 0
    THEN [result |-> Threw, toPost |-> <<>>, send |-> FALSE, overall |-> ""]
    ELSE [result |-> Returned(st.allComments), toPost |-> st.allComments,
          send |-> TRUE, overall |-> rep.overallComment]

postCommentsByPosition(file) ==
    IF Len(file) = 0 THEN [result |-> Threw, toPost |-> <<>>, send |-> FALSE, overall |-> ""]
    ELSE PrepareByPosition(file[1], PositionFiles(file[1].files, 1, MapInit))

PositionArgs(review, comment) ==
    [body |-> comment.body, commit_id |-> review.commit_id, path |-> comment.path,
     position |-> comment.position]

CreatePositionComment(st, p, comment, failAt) ==
    CommentAdded(Ask(st, "createReviewComment", PositionArgs(st.reviews[p], comment), failAt),
                 p, comment)

RECURSIVE AddPositionComments(_, _, _, _, _)
AddPositionNext(p, comments, i, failAt, next) ==
    IF Evaluated(next) THEN AddPositionComments(next, p, comments, i + 1, failAt) ELSE next

AddPositionComments(st, p, comments, i, failAt) ==
    IF i > Len(comments) \/ st.failed THEN st
    ELSE AddPositionNext(p, comments, i, failAt,
                         CreatePositionComment(st, p, comments[i], failAt))

\* createReview without commit_id: the host takes the head of the pull request
PositionReviewArgs(comments, overallComment) ==
    [comments |-> comments,
     body |-> IF overallComment # "" THEN <<formatOverallComment(overallComment)>>
              ELSE <<>>,
     event |-> <<>>]

CreatePositionReview(st, args, failAt) ==
    ReviewCreated(Ask(st, "createReview", args, failAt), HeadSha, args)

AfterListByPosition(st, comments, overallComment, failAt) ==
    IF st.failed THEN st
    ELSE IF PendingReview(st.reviews) > 0
    THEN UpdateBody(AddPositionComments(st, PendingReview(st.reviews), comments, 1, failAt),
                    PendingReview(st.reviews), overallComment, failAt)
    ELSE CreatePositionReview(st, PositionReviewArgs(comments, overallComment), failAt)

ReviewPhaseByPosition(done, revs, failAt) ==
    IF done.send
    THEN AfterListByPosition(Ask(ReviewInit(revs), "listReviews", <<>>, failAt),
                             done.toPost, done.overall, failAt)
    ELSE ReviewInit(revs)

-----------------------------------------------------------------------------
(* index.js: the commands *)

\* the functions of the program run without a command line
NoCommand == [name |-> "none", dryRun |-> FALSE]

\* the end of an action: `process.exit(1)` in the catch block
EndOf(result) == IF result.state = "threw" THEN "exit1" ELSE "done"

ReviewStepIgnoringDryRun(result, options) ==
    IF result.state = "threw" THEN "exit1"
    ELSE IF Len(result.value) = 0 THEN "done"
    ELSE "posting"

\* the `review` action after `await analyzePR(...)`
ReviewStep(result, options) ==
    IF result.state = "threw" THEN "exit1"
    ELSE IF Len(result.value) = 0 THEN "done"
    ELSE IF options.dryRun THEN "done"
    ELSE "posting"

-----------------------------------------------------------------------------
(* Inputs of the patch parsers *)

\* the diff of createTestDiff
SampleDiff ==
    Join(<<"diff --git a/test.js b/test.js",
           "index 2aa9a08..066fc99 100644",
           "--- a/test.js",
           "+++ b/test.js",
           "@@ -2,14 +2,7 @@",
           "",
           " var hello = require('./hello.js');",
           "",
           "-var names = [",
           "-  'harry',",
           "-  'barry',",
           "-  'garry',",
           "-  'harry',",
           "-  'barry',",
           "-  'marry',",
           "-];",
           "+var names = ['harry', 'barry', 'garry', 'harry', 'barry', 'marry'];",
           "",
           " var names2 = [",
           "   'harry',",
           "@@ -23,9 +16,7 @@ var names2 = [",
           " // after this line new chunk will be created",
           " var names3 = [",
           "   'harry',",
           "-  'barry',",
           "-  'garry',",
           "   'harry',",
           "   'barry',",
           "-  'marry',",
           "+  'marry', 'garry',",
           " ];",
           "">>)

\* the two hunks of the multi-hunk scenario
TwoHunkDiff ==
    Join(<<"@@ -1,3 +1,3 @@", " c", "-b", "+a", " c",
           "@@ -10,2 +11,4 @@", "+a", " c", "+a", " c">>)

\* the new-file scenario
NewFileDiff == Join(<<"@@ -0,0 +1,2 @@", "+a", "+b">>)

\* physical lines of a file's patch, as the pull-request file list delivers it
HunkLines ==
    {"@@ -1,3 +1,3 @@", "@@ -10,2 +11,4 @@", "@@ malformed", "+a", "-b", " c", ""}

SeqsUpTo(S, n) == UNION {[1..k -> S] : k \in 0..n}

\* patches of one file, starting directly with the hunk text
SingleFilePatches == {Join(ls) : ls \in SeqsUpTo(HunkLines, MaxLines) \ {<<>>}}

\* patches of one file in `git diff` form: a file header, then the hunk text
GitFilePatches ==
    {Join(<<"diff --git a/x.json b/x.json">> \o ls) : ls \in SeqsUpTo(HunkLines, MaxLines)}

\* hunk texts of the sections of a multi-file patch
SectionBodies ==
    {<<>>,
     <<"@@ -1,3 +1,3 @@", "+a">>,
     <<"@@ -2,3 +2,2 @@", " c", "-b", "+a">>,
     <<"--- a/x.json", "+++ b/x.json", "@@ -5 +7 @@", "+a", "", "+b">>,
     <<"@@ malformed", "+a">>,
     <<"@@ -1,3 +1,3 @@", "+a", "@@ malformed", "+b">>}

FileStarts ==
    <<"diff --git a/x.json b/x.json", "diff --git a/y.json b/y.json",
      "diff --git a/z.json b/z.json", "diff --git a/w.json b/w.json">>

\* the k-th section of a multi-file patch carries the k-th file name
RECURSIVE SectionsText(_, _)
SectionsText(bodies, k) ==
    IF k > Len(bodies) THEN <<>>
    ELSE <<FileStarts[k]>> \o bodies[k] \o SectionsText(bodies, k + 1)

MultiFilePatches ==
    {Join(SectionsText(bodies, 1)) : bodies \in SeqsUpTo(SectionBodies, MaxFiles) \ {<<>>}}

Fixtures ==
    {SampleDiff,
     "",
     NewFileDiff,
     Join(<<"@@ -2,3 +2,2 @@", " unchanged line", "-removed line", "+added line">>),
     TwoHunkDiff,
     Join(<<"--- a/x.json", "+++ b/x.json", "@@ -1 +1 @@", "-b", "+a",
            "\\ No newline at end of file">>),
     Join(<<"From 1a2b3c", "Date: Mon", "Subject: [PATCH] x", "index 1..2 100644",
            "@@ -3,2 +4,3 @@", "--- b", "+++ a", "+a">>)}

HunkTexts == SingleFilePatches \cup Fixtures

GitTexts == GitFilePatches \cup MultiFilePatches \cup Fixtures

-----------------------------------------------------------------------------
(* Specifications of the patch parsers *)

\* no request made, no cache file
NoRequests ==
    /\ trace = <<>>
    /\ cacheFile = <<>>
    /\ now = 0
    /\ context = NoContextCall

ServiceIdle == NoRequests /\ reviews = <<>>

\* nothing has run around the parsers
PipelineIdle ==
    /\ ServiceIdle
    /\ calls = <<>>
    /\ prFiles = <<>>
    /\ aiOutcome = [kind |-> "throws"]
    /\ aiRequest = NoRequest
    /\ report = Idle
    /\ reportFile = <<>>
    /\ postCall = Idle
    /\ posted = <<>>
    /\ command = NoCommand
    /\ pc = "done"

NoCalls ==
    /\ addedLines = Idle
    /\ changedLines = Idle
    /\ changedLinesV1 = Idle
    /\ parsedFiles = Idle
    /\ commentLines = Idle
    /\ header = ""
    /\ hunkInfo = Idle
    /\ PipelineIdle

\* a file's patch from the pull-request file list
Init == diffContent \in HunkTexts /\ NoCalls

\* a patch in `git diff` form, of one or more files
InitGit == diffContent \in GitTexts /\ NoCalls

ExtractAddedLinesCall ==
    /\ addedLines = Idle
    /\ addedLines' = Returned(extractAddedLinesWithRelativeNumbers(diffContent))
    /\ UNCHANGED <<diffContent, changedLines, changedLinesV1, parsedFiles,
                   commentLines, header, hunkInfo, pipelineVars>>

ExtractChangedLinesCall ==
    /\ changedLines = Idle
    /\ changedLines' = Returned(extractChangedLines(diffContent))
    /\ UNCHANGED <<diffContent, addedLines, changedLinesV1, parsedFiles,
                   commentLines, header, hunkInfo, pipelineVars>>

ExtractChangedLinesV1Call ==
    /\ changedLinesV1 = Idle
    /\ changedLinesV1' = Returned(extractChangedLinesV1(diffContent))
    /\ UNCHANGED <<diffContent, addedLines, changedLines, parsedFiles,
                   commentLines, header, hunkInfo, pipelineVars>>

ParseDiffCall ==
    /\ parsedFiles = Idle
    /\ parsedFiles' = parseDiff(diffContent)
    /\ UNCHANGED <<diffContent, addedLines, changedLines, changedLinesV1,
                   commentLines, header, hunkInfo, pipelineVars>>

\* getCommentLineNumbers(parseDiff(diff)): nothing runs after parseDiff threw
GetCommentLineNumbersCall ==
    /\ parsedFiles.state = "returned"
    /\ commentLines = Idle
    /\ commentLines' = Returned(getCommentLineNumbers(parsedFiles.value))
    /\ UNCHANGED <<diffContent, addedLines, changedLines, changedLinesV1,
                   parsedFiles, header, hunkInfo, pipelineVars>>

\* diff-util and the analyzer built on it
Next ==
    \/ ExtractAddedLinesCall
    \/ ExtractChangedLinesCall

Spec == Init /\ [][Next]_vars

\* the two position counters: diff-util and src/analyzer.js
NextPosition ==
    \/ ExtractAddedLinesCall
    \/ ExtractChangedLinesV1Call

SpecPosition == Init /\ [][NextPosition]_vars

\* the line-number analyzer
NextParseDiff ==
    \/ ParseDiffCall
    \/ GetCommentLineNumbersCall

SpecParseDiff == InitGit /\ [][NextParseDiff]_vars

\* diff-util and the line-number analyzer on the same patch
NextBoth ==
    \/ ExtractAddedLinesCall
    \/ ParseDiffCall

SpecBoth == InitGit /\ [][NextBoth]_vars

\* lines of a well-formed patch of one file
PatchLines ==
    {"@@ -1,3 +1,3 @@", "+a", "-b", " c", "", "\\ No newline at end of file"}

\* patches of one file, with and without the `diff --git` line
PatchTexts ==
    {Join(ls) : ls \in SeqsUpTo(PatchLines, MaxLines) \ {<<>>}}
    \cup {Join(<<"diff --git a/x.json b/x.json">> \o ls) : ls \in SeqsUpTo(PatchLines, MaxLines)}

InitParsers == diffContent \in PatchTexts /\ NoCalls

\* the three parsers on the same patch
NextParsers ==
    \/ ExtractAddedLinesCall
    \/ ExtractChangedLinesV1Call
    \/ ParseDiffCall

SpecParsers == InitParsers /\ [][NextParsers]_vars

\* physical lines of a patch that carries its file headers
HeaderAndChangeLines ==
    {"diff --git a/x.json b/x.json", "index 1a2b..3c4d 100644", "--- a/x.json",
     "+++ b/x.json", "@@ -1,3 +1,3 @@", "+a", "++b", "+", "-b", " c"}

HeaderTexts ==
    {Join(ls) : ls \in SeqsUpTo(HeaderAndChangeLines, MaxHeaderLines) \ {<<>>}} \cup Fixtures

InitHeaders == diffContent \in HeaderTexts /\ NoCalls

\* diff-util and the analyzer built on it, on patches with file headers
SpecHeaders == InitHeaders /\ [][Next]_vars

-----------------------------------------------------------------------------
(* Specification of the hunk-header parser *)

HeaderStarts == {"0", "1", "2", "10", "23"}
HeaderCounts == {"", ",", ",0", ",3", ",14", ", 2"}
HeaderOpen == {"@@ -", "@@-", " @@ -", "@ -"}
HeaderClose == {" @@", " @@ var names2 = [", "@@", " @", ""}

HeaderLines ==
    {op \o a \o b \o " +" \o c \o d \o cl :
        op \in HeaderOpen, a \in HeaderStarts \cup {""}, b \in HeaderCounts,
        c \in HeaderStarts, d \in HeaderCounts, cl \in HeaderClose}
    \cup {"", "@@", "+@@ -1 +1 @@", "@@ -1 -1 @@", "@@ -2,14 +2,7 @@",
          "@@ -23,9 +16,7 @@ var names2 = ["}

InitHeader ==
    /\ diffContent = ""
    /\ addedLines = Idle
    /\ changedLines = Idle
    /\ changedLinesV1 = Idle
    /\ parsedFiles = Idle
    /\ commentLines = Idle
    /\ header \in HeaderLines
    /\ hunkInfo = Idle
    /\ PipelineIdle

ParseHunkHeaderCall ==
    /\ hunkInfo = Idle
    /\ hunkInfo' = parseHunkHeader(header)
    /\ UNCHANGED <<diffContent, addedLines, changedLines, changedLinesV1,
                   parsedFiles, commentLines, header, pipelineVars>>

NextHeader == ParseHunkHeaderCall

SpecHeader == InitHeader /\ [][NextHeader]_vars

-----------------------------------------------------------------------------
(* Specification of parser calls made one after the other *)

RepeatTexts == {SampleDiff, TwoHunkDiff, NewFileDiff, ""}

InitRepeat == diffContent = "" /\ NoCalls

RepeatExtractCall ==
    /\ Len(calls) < MaxCalls
    /\ \E text \in RepeatTexts :
          /\ diffContent' = text
          /\ calls' = Append(calls,
                [fn |-> "extractAddedLinesWithRelativeNumbers", text |-> text,
                 result |-> Returned(extractAddedLinesWithRelativeNumbers(text))])
    /\ UNCHANGED <<addedLines, changedLines, changedLinesV1, parsedFiles,
                   commentLines, header, hunkInfo, prFiles, aiOutcome, aiRequest,
                   report, reportFile, postCall, posted, cliVars, serviceVars>>

RepeatParseDiffCall ==
    /\ Len(calls) < MaxCalls
    /\ \E text \in RepeatTexts :
          /\ diffContent' = text
          /\ calls' = Append(calls,
                [fn |-> "parseDiff", text |-> text, result |-> parseDiff(text)])
    /\ UNCHANGED <<addedLines, changedLines, changedLinesV1, parsedFiles,
                   commentLines, header, hunkInfo, prFiles, aiOutcome, aiRequest,
                   report, reportFile, postCall, posted, cliVars, serviceVars>>

NextRepeat ==
    \/ RepeatExtractCall
    \/ RepeatParseDiffCall

SpecRepeat == InitRepeat /\ [][NextRepeat]_vars

\* the request of a run that the host rejects, 0 for none
FailurePoints == 0..(MaxComments + 2)

SubmittedReview ==
    [id |-> 1, state |-> "COMMENTED", commit_id |-> "sha-old", body |-> "Looks good",
     comments |-> <<>>]

PendingWith(id, body, comments) ==
    [id |-> id, state |-> "PENDING", commit_id |-> "sha-old", body |-> body,
     comments |-> comments]

EarlierComment ==
    [path |-> "ghost/i18n/locales/de/ghost.json", line |-> 2, side |-> "RIGHT",
     body |-> "needs a second look"]

\* the reviews of the pull request before the program runs
ReviewChoices ==
    {<<>>,
     <<SubmittedReview>>,
     <<SubmittedReview, PendingWith(2, "", <<>>)>>,
     <<PendingWith(1, "Earlier notes", <<>>)>>,
     <<PendingWith(1, "Earlier notes", <<EarlierComment>>)>>}

\* what the host answers to repos.getContent for context.json
HostAnswers ==
    {[ok |-> FALSE, content |-> ""],
     [ok |-> TRUE, content |-> "{\"Save\": \"button\"}"],
     [ok |-> TRUE, content |-> "{\"Save\": \"button\", \"Close\": \"button\"}"]}

\* what a call of getOriginalFileContent leaves behind
ContextCallDone(ctx) ==
    /\ context' = [state |-> "returned", value |-> ctx.content,
                   fetched |-> ctx.fetched, n |-> context.n + 1]
    /\ cacheFile' = ctx.file

-----------------------------------------------------------------------------
(* Specifications of analyzePR *)

De == "ghost/i18n/locales/de/ghost.json"
Fr == "ghost/i18n/locales/fr/portal.json"

\* file names of a pull request, locale files and others
PRFilenames ==
    {De, Fr, "README.md", "ghost/i18n/locales/de/ghost.json.bak",
     "apps/ghost/i18n/locales/de/ghost.json"}

\* two added lines, at diff positions 3 and 4, new-file lines 2 and 3
TwoAddedPatch == Join(<<"@@ -1,3 +1,3 @@", " c", "+a", "+b">>)
NoAddedPatch == Join(<<"@@ -1,2 +1 @@", " c", "-b">>)

PRFile(name, patch) == [filename |-> name, status |-> "modified", patch |-> patch]

\* pull requests with locale files, other files, and files without patch
PullRequests ==
    {<<PRFile(De, <<TwoAddedPatch>>)>>,
     <<PRFile(De, <<TwoAddedPatch>>), PRFile(Fr, <<TwoHunkDiff>>)>>,
     <<PRFile("README.md", <<TwoAddedPatch>>), PRFile(De, <<TwoAddedPatch>>)>>,
     <<PRFile(De, <<>>), PRFile(Fr, <<TwoAddedPatch>>)>>,
     <<PRFile(De, <<NoAddedPatch>>), PRFile(Fr, <<"">>)>>,
     <<PRFile("README.md", <<TwoAddedPatch>>)>>,
     <<>>}

Comment(name, position, type) ==
    [filename |-> name, diffPosition |-> position, type |-> type, message |-> "typo?"]

\* comments the model may return: on added lines, on other lines, on other
\* files, with a position that is not a number
CommentChoices ==
    {Comment(De, Num(3), Str("warning")),
     Comment(De, Num(4), Undefined),
     Comment(De, Num(2), Str("error")),
     Comment(De, Str("3"), Str("info")),
     Comment(De, Undefined, Str("info")),
     Comment(Fr, Num(3), Str("suggestion")),
     Comment(Fr, Num(10), Str("warning")),
     Comment("README.md", Num(3), Str("warning"))}

JObject(comments, overall) == [t |-> "object", comments |-> comments, overall |-> overall]

Answer(value) == [kind |-> "json", value |-> value]

\* answers with a list of comments
CommentAnswers ==
    {Answer(JObject(Arr(cs), o)) :
        cs \in SeqsUpTo(CommentChoices, MaxComments), o \in {Undefined, Str("Danke!")}}

\* the other outcomes of the model call
OtherOutcomes ==
    {[kind |-> "throws"], [kind |-> "noContent"], [kind |-> "refusal"],
     [kind |-> "notJson"],
     Answer(JNull), Answer(Arr(<<>>)),
     Answer(JObject(Undefined, Str("Danke!"))),
     Answer(JObject(JNull, Undefined)),
     Answer(JObject(Str(""), Undefined)),
     Answer(JObject(Str("none"), Undefined))}

AiOutcomes == CommentAnswers \cup OtherOutcomes

AnalyzeIdle ==
    /\ ServiceIdle
    /\ calls = <<>>
    /\ aiRequest = NoRequest
    /\ report = Idle
    /\ reportFile = <<>>
    /\ postCall = Idle
    /\ posted = <<>>
    /\ command = NoCommand
    /\ pc = "done"
    /\ addedLines = Idle
    /\ changedLines = Idle
    /\ changedLinesV1 = Idle
    /\ parsedFiles = Idle
    /\ commentLines = Idle
    /\ header = ""
    /\ hunkInfo = Idle

InitAnalyze ==
    /\ diffContent = ""
    /\ prFiles \in PullRequests
    /\ aiOutcome \in AiOutcomes
    /\ AnalyzeIdle

\* what analyzePR leaves behind
AnalyzePRDone(files, done, ctx) ==
    /\ report' = done.result
    /\ aiRequest' = done.request
    /\ reportFile' = IF Len(done.written) = 0 THEN reportFile ELSE done.written
    /\ trace' = trace \o AnalyzeTrace(files, ctx, done)
    /\ IF Len(RelevantFiles(files)) = 0
       THEN UNCHANGED <<context, cacheFile>>
       ELSE ContextCallDone(ctx)

\* analyzePR with the answer of the host to a request for context.json
AnalyzePRWith(host) ==
    AnalyzePRDone(prFiles, analyzePR(prFiles, aiOutcome),
                  getOriginalFileContent(cacheFile, now, host))

AnalyzePRCall ==
    /\ report = Idle
    /\ \E host \in HostAnswers : AnalyzePRWith(host)
    /\ UNCHANGED <<diffContent, addedLines, changedLines, changedLinesV1, parsedFiles,
                   commentLines, header, hunkInfo, calls, prFiles, aiOutcome,
                   postCall, posted, cliVars, reviews, now>>

NextAnalyze == AnalyzePRCall

SpecAnalyze == InitAnalyze /\ [][NextAnalyze]_vars

\* file lists without a repeated file name
DistinctNames(files) ==
    \A i, j \in 1..Len(files) : files[i].filename = files[j].filename => i = j

PRFileChoices ==
    {PRFile(name, patch) :
        name \in PRFilenames, patch \in {<<>>, <<"">>, <<TwoAddedPatch>>}}

GeneratedPullRequests ==
    {files \in SeqsUpTo(PRFileChoices, MaxPRFiles) : DistinctNames(files)}

InitFilter ==
    /\ diffContent \in {"", NewFileDiff}
    /\ prFiles \in GeneratedPullRequests
    /\ aiOutcome \in {[kind |-> "throws"],
                       Answer(JObject(Arr(<<Comment(De, Num(3), Str("warning")),
                                            Comment(Fr, Num(4), Str("info"))>>),
                                      Undefined))}
    /\ AnalyzeIdle

NextFilter ==
    \/ AnalyzePRCall
    \/ ExtractAddedLinesCall
    \/ ParseDiffCall

SpecFilter == InitFilter /\ [][NextFilter]_vars

-----------------------------------------------------------------------------
(* Specification of postComments *)

\* one added line, at diff position 2, numbered 0 by its header
ZeroStartPatch == Join(<<"@@ -0,0 +0,0 @@", "+a">>)

ReportFileOf(name, patch, comments) ==
    [filename |-> name, status |-> "modified",
     changedLines |-> extractChangedLines(patch), comments |-> comments]

\* a report as analyzePR writes it, possibly edited before it is posted
ReportWith(files) ==
    [files |-> files, skippedFiles |-> <<>>, overallComment |-> BaseComment,
     summary |-> [totalFiles |-> Len(files), i18nFiles |-> Len(files),
                  skippedFiles |-> 0,
                  filesWithComments |->
                      Len(SelectSeq(files, LAMBDA r : Len(r.comments) > 0)),
                  totalComments |-> TotalComments(files)]]

\* comments of the first report file
EditedComments ==
    {Comment(De, Num(3), Str("warning")),
     Comment(De, Num(4), Str("error")),
     Comment(De, Num(2), Str("info")),
     Comment(De, Num(9), Str("info")),
     Comment(De, Str("3"), Str("info")),
     Comment(De, Undefined, Str("info")),
     Comment(De, Num(4), Undefined)}

\* the second report file, when there is one
SecondFiles ==
    {<<>>,
     <<ReportFileOf(Fr, TwoAddedPatch, <<>>)>>,
     <<ReportFileOf(Fr, TwoAddedPatch, <<Comment(Fr, Num(3), Str("warning"))>>)>>,
     <<ReportFileOf(Fr, TwoAddedPatch, <<Comment(Fr, Num(1), Str("warning"))>>)>>}

\* reports whose overall comment was emptied before posting
ReportsWithoutOverall ==
    {[ReportWith(<<ReportFileOf(De, TwoAddedPatch, cs)>>) EXCEPT !.overallComment = ""] :
        cs \in {<<>>,
                <<Comment(De, Num(3), Str("warning"))>>,
                <<Comment(De, Num(9), Str("info"))>>,
                <<Comment(De, Undefined, Str("info"))>>}}

PostReports ==
    {ReportWith(<<ReportFileOf(De, patch, cs)>> \o second) :
        patch \in {TwoAddedPatch, ZeroStartPatch},
        cs \in SeqsUpTo(EditedComments, MaxComments),
        second \in SecondFiles}
    \cup ReportsWithoutOverall

InitPost ==
    /\ diffContent = ""
    /\ addedLines = Idle
    /\ changedLines = Idle
    /\ changedLinesV1 = Idle
    /\ parsedFiles = Idle
    /\ commentLines = Idle
    /\ header = ""
    /\ hunkInfo = Idle
    /\ NoRequests
    /\ reviews \in ReviewChoices
    /\ calls = <<>>
    /\ prFiles = <<>>
    /\ aiOutcome = [kind |-> "throws"]
    /\ aiRequest = NoRequest
    /\ report = Idle
    /\ postCall = Idle
    /\ posted = <<>>
    /\ command = NoCommand
    /\ pc = "done"
    /\ reportFile \in {<<>>} \cup {<<rep>> : rep \in PostReports}

\* what postComments leaves behind, `sent` being its run against the review
\* API; a failing request is logged and ends the posting
PostCommentsDone(done, sent) ==
    /\ postCall' = done.result
    /\ posted' = posted \o sent.delivered
    /\ reviews' = sent.reviews
    /\ trace' = trace \o PostTrace(reportFile, sent)

\* postComments with the host rejecting its request number failAt
PostCommentsWith(done, failAt) ==
    PostCommentsDone(done, ReviewPhase(done, reviews, failAt))

PostCommentsCall ==
    /\ postCall = Idle
    /\ \E failAt \in FailurePoints : PostCommentsWith(postComments(reportFile), failAt)
    /\ UNCHANGED <<diffContent, addedLines, changedLines, changedLinesV1, parsedFiles,
                   commentLines, header, hunkInfo, calls, prFiles, aiOutcome,
                   aiRequest, report, reportFile, cliVars, cacheFile, now, context>>

PostByPositionDone(done, sent) ==
    /\ postCall' = done.result
    /\ posted' = posted \o sent.delivered
    /\ reviews' = sent.reviews
    /\ trace' = trace \o <<Op("fs.readFile", "")>> \o sent.log

PostByPositionWith(done, failAt) ==
    PostByPositionDone(done, ReviewPhaseByPosition(done, reviews, failAt))

PostCommentsByPositionCall ==
    /\ postCall = Idle
    /\ \E failAt \in FailurePoints :
          PostByPositionWith(postCommentsByPosition(reportFile), failAt)
    /\ UNCHANGED <<diffContent, addedLines, changedLines, changedLinesV1, parsedFiles,
                   commentLines, header, hunkInfo, calls, prFiles, aiOutcome,
                   aiRequest, report, reportFile, cliVars, cacheFile, now, context>>

NextPostByPosition == PostCommentsByPositionCall

SpecPostByPosition == InitPost /\ [][NextPostByPosition]_vars

NextPost == PostCommentsCall

SpecPost == InitPost /\ [][NextPost]_vars

-----------------------------------------------------------------------------
(* Specification of the context cache *)

MaxClock == 26

InitCache ==
    /\ diffContent = ""
    /\ NoCalls
    /\ parsedFiles = Idle
    /\ commentLines = Idle
    /\ header = ""
    /\ hunkInfo = Idle
    /\ PipelineIdle

GetContextDone(ctx) ==
    /\ ContextCallDone(ctx)
    /\ trace' = trace \o ContextTrace(ctx)

GetContextCall ==
    /\ context.n < MaxCalls
    /\ \E host \in HostAnswers :
          GetContextDone(getOriginalFileContent(cacheFile, now, host))
    /\ UNCHANGED <<diffContent, addedLines, changedLines, changedLinesV1, parsedFiles,
                   commentLines, header, hunkInfo, calls, prFiles, aiOutcome,
                   aiRequest, report, reportFile, postCall, posted, cliVars,
                   reviews, now>>

\* time passes between two calls
Tick ==
    /\ \E hours \in {1, CACHE_EXPIRY - 1} :
          /\ now + hours <= MaxClock
          /\ now' = now + hours
    /\ UNCHANGED <<diffContent, addedLines, changedLines, changedLinesV1, parsedFiles,
                   commentLines, header, hunkInfo, calls, prFiles, aiOutcome,
                   aiRequest, report, reportFile, postCall, posted, cliVars,
                   trace, reviews, cacheFile, context>>

NextCache ==
    \/ GetContextCall
    \/ Tick

SpecCache == InitCache /\ [][NextCache]_vars

-----------------------------------------------------------------------------
(* Specification of the commands *)

Commands ==
    [name : {"analyze", "post", "review", "clean-pending"}, dryRun : BOOLEAN]

\* a report left in ai_validations/ by an earlier run
EarlierReport ==
    ReportWith(<<ReportFileOf(De, TwoAddedPatch, <<Comment(De, Num(3), Str("warning"))>>)>>)

InitCommand ==
    /\ diffContent = ""
    /\ addedLines = Idle
    /\ changedLines = Idle
    /\ changedLinesV1 = Idle
    /\ parsedFiles = Idle
    /\ commentLines = Idle
    /\ header = ""
    /\ hunkInfo = Idle
    /\ NoRequests
    /\ reviews \in ReviewChoices
    /\ calls = <<>>
    /\ prFiles \in PullRequests
    /\ aiOutcome \in {[kind |-> "throws"],
                       Answer(JObject(Undefined, Str("Danke!"))),
                       Answer(JObject(Arr(<<Comment(De, Num(3), Str("warning")),
                                            Comment(Fr, Num(4), Str("info"))>>),
                                      Str("Danke!"))),
                       Answer(JObject(Arr(<<Comment(De, Num(3), Undefined)>>),
                                      Str("Danke!")))}
    /\ aiRequest = NoRequest
    /\ report = Idle
    /\ reportFile \in {<<>>, <<EarlierReport>>}
    /\ postCall = Idle
    /\ posted = <<>>
    /\ command \in Commands
    /\ pc = "start"

ParserVarsUnchanged ==
    UNCHANGED <<diffContent, addedLines, changedLines, changedLinesV1, parsedFiles,
                commentLines, header, hunkInfo, calls>>

\* `analyze <pr-number>`, the report going to the default
\* ai_validations/<pr-number>.json
AnalyzeCommand ==
    /\ command.name = "analyze"
    /\ pc = "start"
    /\ \E host \in HostAnswers : AnalyzePRWith(host)
    /\ pc' = EndOf(report')
    /\ ParserVarsUnchanged
    /\ UNCHANGED <<prFiles, aiOutcome, postCall, posted, command, reviews, now>>

\* `post <pr-number>`
PostCommand ==
    /\ command.name = "post"
    /\ pc = "start"
    /\ \E failAt \in FailurePoints : PostCommentsWith(postComments(reportFile), failAt)
    /\ pc' = EndOf(postCall')
    /\ ParserVarsUnchanged
    /\ UNCHANGED <<prFiles, aiOutcome, aiRequest, report, reportFile, command,
                   cacheFile, now, context>>

\* `review <pr-number>`, Step 1
ReviewAnalyze ==
    /\ command.name = "review"
    /\ pc = "start"
    /\ \E host \in HostAnswers : AnalyzePRWith(host)
    /\ pc' = ReviewStep(report', command)
    /\ ParserVarsUnchanged
    /\ UNCHANGED <<prFiles, aiOutcome, postCall, posted, command, reviews, now>>

\* `review <pr-number>`, Step 2
ReviewPost ==
    /\ command.name = "review"
    /\ pc = "posting"
    /\ \E failAt \in FailurePoints : PostCommentsWith(postComments(reportFile), failAt)
    /\ pc' = EndOf(postCall')
    /\ ParserVarsUnchanged
    /\ UNCHANGED <<prFiles, aiOutcome, aiRequest, report, reportFile, command,
                   cacheFile, now, context>>

\* what deleteEmptyPendingReview leaves behind
CleanPendingDone(deleted) ==
    /\ reviews' = deleted.host.reviews
    /\ trace' = trace \o deleted.host.log
    /\ pc' = EndOf(deleted.result)

\* `clean-pending <pr-number>`
CleanPendingCommand ==
    /\ command.name = "clean-pending"
    /\ pc = "start"
    /\ \E failAt \in FailurePoints :
          CleanPendingDone(deleteEmptyPendingReview(reviews, failAt))
    /\ ParserVarsUnchanged
    /\ UNCHANGED <<prFiles, aiOutcome, aiRequest, report, reportFile, postCall,
                   posted, command, cacheFile, now, context>>

NextCommand ==
    \/ AnalyzeCommand
    \/ PostCommand
    \/ ReviewAnalyze
    \/ ReviewPost
    \/ CleanPendingCommand

SpecCommand == InitCommand /\ [][NextCommand]_vars

-----------------------------------------------------------------------------
(* The unified-diff format, stated independently of the parsers *)

\* the text `<start>` or `<start>,<count>`; count = NULL when it is not written
RangeText(start, count) ==
    ToString(start) \o (IF count = NULL THEN "" ELSE "," \o ToString(count))

Written == 0..MaxWritten
WrittenOrAbsent == Written \cup {NULL}

\* the header text `@@ -<os>[,<oc>] +<ns>[,<nc>] @@`
HeaderText(os, oc, ns, nc) ==
    "@@ -" \o RangeText(os, oc) \o " +" \o RangeText(ns, nc) \o " @@"

\* the ranges r for which line l starts with  pre <r.start>[,<r.count>] post
WrittenRanges(l, pre, post) ==
    {r \in {[start |-> x, count |-> c] :
                x \in {y \in Written : StartsWith(l, pre \o ToString(y))},
                c \in WrittenOrAbsent} :
        StartsWith(l, pre \o RangeText(r.start, r.count) \o post)}

\* the fields written in line l when l has the form of a hunk header
WrittenFields(l) ==
    UNION {{[oldStart |-> old.start, oldCount |-> old.count,
             newStart |-> new.start, newCount |-> new.count] :
                new \in WrittenRanges(l, "@@ -" \o RangeText(old.start, old.count) \o " +",
                                      " @@")} :
            old \in WrittenRanges(l, "@@ -", " +")}

WellFormedHeader(l) == StartsWith(l, "@@ -") /\ WrittenFields(l) # {}

\* the new-file start a well-formed header declares
DeclaredNewStart(l) == (CHOOSE f \in WrittenFields(l) : TRUE).newStart

PhysicalLines == Split(diffContent)

AddedAt(lines) ==
    {i \in 1..Len(lines) : StartsWith(lines[i], "+") /\ ~StartsWith(lines[i], "+++")}
ContextAt(lines) ==
    {i \in 1..Len(lines) : StartsWith(lines[i], " ") \/ lines[i] = ""}
DeletedAt(lines) ==
    {i \in 1..Len(lines) : StartsWith(lines[i], "-") /\ ~StartsWith(lines[i], "---")}
HeadersAt(lines) == {i \in 1..Len(lines) : WellFormedHeader(lines[i])}

SetMax(S) == CHOOSE x \in S : \A y \in S : y <= x
SetMin(S) == CHOOSE x \in S : \A y \in S : x <= y

\* the physical line of the k-th member of a set of line indexes
NthOf(S, k) == CHOOSE i \in S : Cardinality({j \in S : j <= i}) = k

\* the most recent hunk header above line i, 0 when there is none
HeaderAbove(lines, i) ==
    LET hs == {h \in HeadersAt(lines) : h < i}
    IN  IF hs = {} THEN 0 ELSE SetMax(hs)

\* the first hunk header of the patch, 0 when there is none
FirstHeader(lines) ==
    IF HeadersAt(lines) = {} THEN 0 ELSE SetMin(HeadersAt(lines))

NewLines(records) == [k \in 1..Len(records) |-> records[k].newLine]
RelativeLines(records) == [k \in 1..Len(records) |-> records[k].relativeLine]

-----------------------------------------------------------------------------
(* Claims *)

\* C1: every added line returned by extractAddedLinesWithRelativeNumbers has
\* newLine = newStart of the most recent hunk header above it + the number of
\* added and context lines between that header and it; the count restarts at
\* every hunk header (the new-file scenario gives 1 and 2, the second hunk of
\* the two-hunk scenario starts at 11).
C1_NewLineFromHunkStart ==
    addedLines.state = "returned" =>
        LET lines == PhysicalLines
            recs == addedLines.value
        IN  /\ \A k \in 1..Len(recs) :
                LET i == NthOf(AddedAt(lines), k)
                    h == HeaderAbove(lines, i)
                IN  h # 0 =>
                      recs[k].newLine =
                          DeclaredNewStart(lines[h])
                          + Cardinality({j \in (h + 1)..(i - 1) :
                                j \in AddedAt(lines) \cup ContextAt(lines)})
            /\ diffContent = NewFileDiff => NewLines(recs) = <<1, 2>>
            /\ diffContent = TwoHunkDiff => recs[2].newLine = 11

C1_Witness ==
    /\ diffContent = TwoHunkDiff
    /\ addedLines.state = "returned"
    /\ NewLines(addedLines.value) = <<2, 11, 13>>

\* C2: the relativeLine of an added line is the review API's diff position,
\* the number of patch lines from the first hunk header down to the line (the
\* line below the first `@@` is 1); for the diff of createTestDiff the two
\* added lines are reported at 12 and 25.
C2_RelativeLineIsDiffPosition ==
    addedLines.state = "returned" =>
        LET lines == PhysicalLines
            recs == addedLines.value
            first == FirstHeader(lines)
        IN  /\ \A k \in 1..Len(recs) :
                LET i == NthOf(AddedAt(lines), k)
                IN  (first # 0 /\ first < i) => recs[k].relativeLine = i - first
            /\ diffContent = SampleDiff => RelativeLines(recs) = <<12, 25>>

\* the lines of a text without line i
RemoveAt(lines, i) ==
    [j \in 1..(Len(lines) - 1) |-> IF j < i THEN lines[j] ELSE lines[j + 1]]

FileStartsAt(lines) == {i \in 1..Len(lines) : StartsWith(lines[i], "diff --git")}

\* the file header above line i, 0 when there is none
FileStartAbove(lines, i) ==
    LET fs == {f \in FileStartsAt(lines) : f < i}
    IN  IF fs = {} THEN 0 ELSE SetMax(fs)

\* the first hunk header of the file section that holds line i, 0 when the
\* section has no hunk header above line i
SectionFirstHeader(lines, i) ==
    LET f == FileStartAbove(lines, i)
        hs == {h \in HeadersAt(lines) : f < h /\ h < i}
    IN  IF f = 0 \/ hs = {} THEN 0 ELSE SetMin(hs)

\* the added lines that lie inside a hunk of a file section
AnchorsAt(lines) == {i \in AddedAt(lines) : SectionFirstHeader(lines, i) # 0}

CommentLinesOf(records) == [k \in 1..Len(records) |-> records[k].line]

\* C3: the `line` getCommentLineNumbers(parseDiff(diff)) reports for an added
\* line is the number of patch lines from the file's first hunk header down to
\* that line; for the diff of createTestDiff the two added lines are reported
\* at 12 and 25.
C3_CommentLineIsDiffPosition ==
    commentLines.state = "returned" =>
        LET lines == PhysicalLines
            recs == commentLines.value
            anchors == AnchorsAt(lines)
        IN  /\ Len(recs) = Cardinality(anchors)
            /\ \A k \in 1..Len(recs) :
                LET i == NthOf(anchors, k)
                IN  recs[k].line = i - SectionFirstHeader(lines, i)
            /\ diffContent = SampleDiff => CommentLinesOf(recs) = <<12, 25>>

\* the new-file line number and the text of every added-line mapping, per file
MappingsOf(files) ==
    [f \in 1..Len(files) |->
        [k \in 1..Len(files[f].lineMappings) |->
            <<files[f].lineMappings[k].newLine, files[f].lineMappings[k].content>>]]

\* the change records of all hunks of all files
ChangesOf(files) ==
    UNION {UNION {{files[f].hunks[h].changes[c] :
                        c \in 1..Len(files[f].hunks[h].changes)} :
                    h \in 1..Len(files[f].hunks)} :
            f \in 1..Len(files)}

NewLinesAndContent(records) ==
    [k \in 1..Len(records) |-> <<records[k].newLine, records[k].content>>]

\* C4: a deleted line (`-`, not `---`) produces no added-line record, gets no
\* new-file line number and does not advance the new-file line counter: the
\* added lines and their newLine are those of the patch without the deleted
\* line, in extractAddedLinesWithRelativeNumbers and in parseDiff.
C4_DeletedLineLeavesNewLines ==
    LET lines == PhysicalLines
    IN  /\ addedLines.state = "returned" =>
            /\ Len(addedLines.value) = Cardinality(AddedAt(lines))
            /\ \A i \in DeletedAt(lines) :
                NewLinesAndContent(addedLines.value) =
                    NewLinesAndContent(
                        extractAddedLinesWithRelativeNumbers(Join(RemoveAt(lines, i))))
        /\ parsedFiles.state = "returned" =>
            /\ \A c \in ChangesOf(parsedFiles.value) :
                c.type = "deleted" => c.newLine = NULL
            /\ \A i \in DeletedAt(lines) :
                LET without == parseDiff(Join(RemoveAt(lines, i)))
                IN  /\ without.state = "returned"
                    /\ MappingsOf(parsedFiles.value) = MappingsOf(without.value)

DeletedBeforeAddedDiff ==
    Join(<<"diff --git a/x.json b/x.json", "@@ -1,3 +1,3 @@", " c", "-b", "+a">>)

C4_Witness ==
    /\ diffContent = DeletedBeforeAddedDiff
    /\ addedLines.state = "returned"
    /\ NewLines(addedLines.value) = <<2>>
    /\ parsedFiles.state = "returned"
    /\ MappingsOf(parsedFiles.value) = << <<(<<2, "a">>)>> >>

DiffPositions(records) == [k \in 1..Len(records) |-> records[k].diffPosition]

\* the position sequence ps of the added lines advances by one per counted
\* line: two added lines with n counted lines between them differ by n + 1
StepsByCountedLines(ps, lines, counted) ==
    /\ Len(ps) = Cardinality(AddedAt(lines))
    /\ \A j \in 1..Len(ps) : \A k \in (j + 1)..Len(ps) :
        LET from == NthOf(AddedAt(lines), j)
            to == NthOf(AddedAt(lines), k)
        IN  /\ ps[j] < ps[k]
            /\ ps[k] - ps[j] = Cardinality({i \in (from + 1)..(to - 1) : i \in counted}) + 1

\* C5: within one file's patch the position counter advances by exactly 1 per
\* counted line and never repeats or resets, so the positions of the added
\* lines are strictly increasing and two added lines separated by n counted
\* lines differ by n + 1.  diff-util counts every physical line, src/analyzer.js
\* every line that is not a hunk header.
C5_PositionStepsByOne ==
    LET lines == PhysicalLines
    IN  /\ addedLines.state = "returned" =>
            StepsByCountedLines(RelativeLines(addedLines.value), lines, 1..Len(lines))
        /\ changedLinesV1.state = "returned" =>
            StepsByCountedLines(DiffPositions(changedLinesV1.value), lines,
                                {i \in 1..Len(lines) : ~StartsWith(lines[i], "@@")})

C5_Witness ==
    /\ diffContent = TwoHunkDiff
    /\ addedLines.state = "returned"
    /\ RelativeLines(addedLines.value) = <<4, 7, 9>>
    /\ changedLinesV1.state = "returned"
    /\ DiffPositions(changedLinesV1.value) = <<3, 5, 7>>

\* C6: parseHunkHeader returns the integers written in a line of the form
\* `@@ -<int>[,<int>] +<int>[,<int>] @@`, with a count of 1 where `,<int>` is
\* absent and a written 0 kept, and throws for every other line.
C6_HeaderFieldsOrThrow ==
    hunkInfo.state # "idle" =>
        IF WellFormedHeader(header)
        THEN /\ hunkInfo.state = "returned"
             /\ \A f \in WrittenFields(header) :
                  hunkInfo.value =
                      [oldStart |-> f.oldStart,
                       oldCount |-> IF f.oldCount = NULL THEN 1 ELSE f.oldCount,
                       newStart |-> f.newStart,
                       newCount |-> IF f.newCount = NULL THEN 1 ELSE f.newCount]
        ELSE hunkInfo.state = "threw"

\* the lines that start with `@@` and have not the form of a hunk header
MalformedAt(lines) ==
    {i \in 1..Len(lines) : StartsWith(lines[i], "@@") /\ ~WellFormedHeader(lines[i])}

\* line i follows a malformed header that follows the hunk header above i:
\* its counters are those of the earlier hunk
NumberedFromEarlierHunk(lines, i) ==
    \E m \in MalformedAt(lines) : HeaderAbove(lines, i) # 0 /\ HeaderAbove(lines, i) < m /\ m < i

\* C7: a line that starts with `@@` and does not match the hunk-header grammar
\* aborts the parsing of the file's patch: extractAddedLinesWithRelativeNumbers
\* and extractChangedLines return no added-line record whose line number was
\* computed from the counters of an earlier hunk.
C7_MalformedHeaderAborts ==
    LET lines == PhysicalLines
        kept(recs) ==
            {NthOf(AddedAt(lines), k) : k \in 1..Len(recs)}
    IN  /\ addedLines.state = "returned" =>
            \A i \in kept(addedLines.value) : ~NumberedFromEarlierHunk(lines, i)
        /\ changedLines.state = "returned" =>
            \A i \in kept(changedLines.value) : ~NumberedFromEarlierHunk(lines, i)

\* the physical lines of the file section that starts at line f
SectionLines(lines, f) ==
    LET later == {g \in FileStartsAt(lines) : g > f}
        last == IF later = {} THEN Len(lines) ELSE SetMin(later) - 1
    IN  SubSeq(lines, f, last)

\* C8: in a multi-file patch a malformed hunk header in one file section does
\* not prevent the records of the other files: every file section whose
\* headers are well formed is in the result of parseDiff with the added-line
\* mappings it has when parsed alone.
C8_OtherFilesStillParsed ==
    parsedFiles.state # "idle" =>
        LET lines == PhysicalLines
        IN  \A f \in FileStartsAt(lines) :
                LET section == SectionLines(lines, f)
                    alone == parseDiff(Join(section))
                IN  MalformedAt(section) = {} =>
                        /\ alone.state = "returned"
                        /\ parsedFiles.state = "returned"
                        /\ \E n \in 1..Len(parsedFiles.value) :
                            /\ parsedFiles.value[n].filename = alone.value[1].filename
                            /\ parsedFiles.value[n].lineMappings
                                   = alone.value[1].lineMappings

NormalOrDeleted(changes) ==
    SelectSeq(changes, LAMBDA c : c.type \in {"normal", "deleted"})
NormalOrAdded(changes) ==
    SelectSeq(changes, LAMBDA c : c.type \in {"normal", "added"})

AllHunks(files) ==
    UNION {{files[f].hunks[h] : h \in 1..Len(files[f].hunks)} : f \in 1..Len(files)}

\* C9: in the output of parseDiff a context line has oldLine and newLine, an
\* added line newLine and no oldLine, a deleted line oldLine and no newLine;
\* the oldLine values of the deleted and context lines of a hunk are oldStart,
\* oldStart + 1, ... and the newLine values of its added and context lines are
\* newStart, newStart + 1, ... in order.
C9_HunkLineNumbers ==
    parsedFiles.state = "returned" =>
        \A hunk \in AllHunks(parsedFiles.value) :
            LET olds == NormalOrDeleted(hunk.changes)
                news == NormalOrAdded(hunk.changes)
            IN  /\ \A k \in 1..Len(hunk.changes) :
                    LET c == hunk.changes[k]
                    IN  /\ c.type \in {"normal", "added", "deleted"}
                        /\ c.type = "normal" => c.oldLine # NULL /\ c.newLine # NULL
                        /\ c.type = "added" => c.oldLine = NULL /\ c.newLine # NULL
                        /\ c.type = "deleted" => c.oldLine # NULL /\ c.newLine = NULL
                /\ \A k \in 1..Len(olds) : olds[k].oldLine = hunk.header.oldStart + k - 1
                /\ \A k \in 1..Len(news) : news[k].newLine = hunk.header.newStart + k - 1

ThreeKindsDiff ==
    Join(<<"diff --git a/x.json b/x.json", "@@ -2,3 +2,2 @@", " c", "-b", "+a">>)

C9_Witness ==
    /\ diffContent = ThreeKindsDiff
    /\ parsedFiles.state = "returned"
    /\ parsedFiles.value[1].hunks[1].changes =
        <<[type |-> "normal", content |-> "c", oldLine |-> 2, newLine |-> 2],
          [type |-> "deleted", content |-> "b", oldLine |-> 3, newLine |-> NULL],
          [type |-> "added", content |-> "a", oldLine |-> NULL, newLine |-> 3]>>

EmptyAt(lines) == {i \in 1..Len(lines) : lines[i] = ""}

\* the lines of a text without its empty lines
RECURSIVE WithoutEmpty(_)
WithoutEmpty(lines) ==
    IF Len(lines) = 0 THEN <<>>
    ELSE IF Head(lines) = "" THEN WithoutEmpty(Tail(lines))
    ELSE <<Head(lines)>> \o WithoutEmpty(Tail(lines))

\* C10: in extractAddedLinesWithRelativeNumbers an empty physical line of a
\* hunk body counts as a context line: it advances the new-file line counter
\* and the position counter by one, so an added line that follows k empty lines
\* in its hunk has a newLine larger by k than in the patch without them.
C10_EmptyLineIsContext ==
    addedLines.state = "returned" =>
        LET lines == PhysicalLines
            recs == addedLines.value
            without == extractAddedLinesWithRelativeNumbers(Join(WithoutEmpty(lines)))
        IN  /\ Len(recs) = Len(without)
            /\ \A k \in 1..Len(recs) :
                LET i == NthOf(AddedAt(lines), k)
                    h == HeaderAbove(lines, i)
                IN  /\ h # 0 =>
                        recs[k].newLine = without[k].newLine
                            + Cardinality({j \in EmptyAt(lines) : h < j /\ j < i})
                    /\ recs[k].relativeLine = without[k].relativeLine
                            + Cardinality({j \in EmptyAt(lines) : j < i})

EmptyLinesDiff == Join(<<"@@ -1,3 +1,3 @@", "", "", "+a">>)

C10_Witness ==
    /\ diffContent = EmptyLinesDiff
    /\ addedLines.state = "returned"
    /\ addedLines.value = <<[relativeLine |-> 4, newLine |-> 3, content |-> "a"]>>

Contents(records) == [k \in 1..Len(records) |-> records[k].content]

\* the lines of the patch that start with `+` but not `+++`, in document order
PlusLines(lines) ==
    [k \in 1..Cardinality(AddedAt(lines)) |-> lines[NthOf(AddedAt(lines), k)]]

\* C11: extractAddedLinesWithRelativeNumbers returns exactly one record per
\* physical line that starts with `+` but not `+++`, in document order, and
\* none for any other line; the content of a record is the line without its
\* one leading `+`.  extractChangedLines keeps the records and their content.
C11_OneRecordPerAddedLine ==
    /\ addedLines.state = "returned" =>
          [k \in 1..Len(addedLines.value) |-> "+" \o addedLines.value[k].content]
              = PlusLines(PhysicalLines)
    /\ changedLines.state = "returned" =>
          [k \in 1..Len(changedLines.value) |-> "+" \o changedLines.value[k].content]
              = PlusLines(PhysicalLines)

C11_Witness ==
    /\ diffContent = Join(<<"+++ b/x.json", "++b", "+">>)
    /\ addedLines.state = "returned"
    /\ Contents(addedLines.value) = <<"+b", "">>

\* C17: in parseDiff every `diff --git` line closes the current file record
\* and starts a new one with the relative-line counter at 0 and no open hunk:
\* the result has one file per `diff --git` line, the lineMappings of a file
\* hold only added lines of that file's section, and their relativeLine and
\* newLine are those the section has when it is parsed alone, whatever the
\* sections before it contain.
C17_FileStartResetsCounters ==
    parsedFiles.state = "returned" =>
        LET lines == PhysicalLines
            files == parsedFiles.value
            starts == FileStartsAt(lines)
        IN  /\ Len(files) = Cardinality(starts)
            /\ \A n \in 1..Len(files) :
                  LET section == SectionLines(lines, NthOf(starts, n))
                      alone == parseDiff(Join(section))
                      maps == files[n].lineMappings
                  IN  /\ alone.state = "returned"
                      /\ maps = alone.value[1].lineMappings
                      /\ files[n].filename = alone.value[1].filename
                      /\ \A k \in 1..Len(maps) :
                            \E i \in AddedAt(section) :
                                section[i] = "+" \o maps[k].content

C17_Witness ==
    /\ parsedFiles.state = "returned"
    /\ Len(parsedFiles.value) = 3
    /\ Len(parsedFiles.value[1].lineMappings) = 2
    /\ Len(parsedFiles.value[2].lineMappings) = 1
    /\ parsedFiles.value[3].lineMappings
          = <<[relativeLine |-> 1, newLine |-> 1, content |-> "a", type |-> "added"]>>

ReportReturned == report.state = "returned" /\ Len(report.value) = 1

\* the comments the model's answer lists, <<>> when it lists none
AnswerComments ==
    IF aiOutcome.kind # "json" THEN <<>>
    ELSE IF aiOutcome.value.t # "object" THEN <<>>
    ELSE IF aiOutcome.value.comments.t # "array" THEN <<>>
    ELSE aiOutcome.value.comments.items

\* the diff positions of the added lines of a report file
AddedPositions(file) ==
    {file.changedLines[k].diffPosition :
        k \in {j \in 1..Len(file.changedLines) : file.changedLines[j].type = "added"}}

\* the comments of all files of a report
ReportComments(rep) ==
    UNION {{rep.files[f].comments[c] : c \in 1..Len(rep.files[f].comments)} :
            f \in 1..Len(rep.files)}

\* C12: every comment kept in the analysis result and stored in the report
\* under a file has that file's filename and, as diffPosition, the
\* diffPosition of one of that file's added lines; a comment of the model
\* whose (filename, diffPosition) is no such pair is in no file of the
\* report, and the report written to disk is the one returned.
C12_KeptCommentsHaveValidAnchor ==
    ReportReturned =>
        LET rep == report.value[1]
        IN  /\ reportFile = report.value
            /\ \A f \in 1..Len(rep.files) :
                  \A c \in 1..Len(rep.files[f].comments) :
                      LET comment == rep.files[f].comments[c]
                      IN  /\ comment.filename = rep.files[f].filename
                          /\ comment.diffPosition.t = "number"
                          /\ comment.diffPosition.n \in AddedPositions(rep.files[f])
            /\ ReportComments(rep) \subseteq
                  {AnswerComments[k] : k \in 1..Len(AnswerComments)}

C12_Witness ==
    /\ ReportReturned
    /\ AnswerComments = <<Comment(De, Num(3), Str("warning")), Comment(De, Num(2), Str("error"))>>
    /\ Len(report.value[1].files) = 2
    /\ report.value[1].files[1].comments = <<Comment(De, Num(3), Str("warning"))>>
    /\ report.value[1].summary.totalComments = 1

\* the model call threw, returned no content or a refusal, text that is not
\* JSON, or JSON without a `comments` list
ModelCallFailed ==
    \/ aiOutcome.kind \in {"throws", "noContent", "refusal", "notJson"}
    \/ /\ aiOutcome.kind = "json"
       /\ IF aiOutcome.value.t # "object" THEN TRUE
          ELSE aiOutcome.value.comments.t # "array"

\* the locale files of the pull request that have a patch with added lines
AnalysedFiles ==
    SelectSeq(RelevantFiles(prFiles),
              LAMBDA file : /\ Len(file.patch) = 1
                            /\ AddedAt(Split(file.patch[1])) # {})

\* C15: no outcome of the model call is fatal to analyzePR: when the call
\* throws, returns no content or a refusal, text that is not JSON, or JSON
\* without a `comments` list, analyzePR completes and writes the report, and
\* every analysed file is in it with zero comments.
C15_ModelFailureNotFatal ==
    (report.state # "idle" /\ ModelCallFailed /\ Len(RelevantFiles(prFiles)) > 0) =>
        /\ ReportReturned
        /\ reportFile = report.value
        /\ Filenames(report.value[1].files) = Filenames(AnalysedFiles)
        /\ \A f \in 1..Len(report.value[1].files) :
              report.value[1].files[f].comments = <<>>

\* a file name of the form ghost/i18n/locales/<anything>.json
IsLocaleFile(name) ==
    /\ Len(name) >= Len(I18nPrefix) + 5
    /\ name = I18nPrefix \o SubSeq(name, Len(I18nPrefix) + 1, Len(name) - 5) \o ".json"

LocaleFilesAt == {k \in 1..Len(prFiles) : IsLocaleFile(prFiles[k].filename)}
OtherFilesAt == {k \in 1..Len(prFiles) : ~IsLocaleFile(prFiles[k].filename)}

NamesAt(S) == {prFiles[k].filename : k \in S}
NamesOf(records) == {records[k].filename : k \in 1..Len(records)}

\* the locale files whose patch text is missing or empty
WithoutPatchAt == {k \in LocaleFilesAt : prFiles[k].patch \in {<<>>, <<"">>}}

\* C16: an empty patch is not an error: extractAddedLinesWithRelativeNumbers("")
\* and parseDiff("") return an empty list, and in analyzePR a locale file whose
\* patch text is missing or empty is skipped (not sent to the model, not in
\* report.files) while the other locale files are still analysed.
C16_EmptyPatchIsSkipped ==
    /\ diffContent = "" =>
          /\ addedLines \in {Idle, Returned(<<>>)}
          /\ parsedFiles \in {Idle, Returned(<<>>)}
    /\ report.state # "idle" =>
          /\ report.state = "returned"
          /\ ReportReturned =>
                /\ NamesOf(report.value[1].files) = NamesAt(LocaleFilesAt \ WithoutPatchAt)
                /\ {aiRequest.files[k] : k \in 1..Len(aiRequest.files)}
                      = NamesAt(LocaleFilesAt \ WithoutPatchAt)
                /\ \A f \in 1..Len(report.value[1].files) :
                      Len(report.value[1].files[f].changedLines) = 2

C16_Witness ==
    /\ diffContent = ""
    /\ addedLines = Returned(<<>>)
    /\ parsedFiles = Returned(<<>>)
    /\ prFiles = <<PRFile(De, <<"">>), PRFile(Fr, <<TwoAddedPatch>>)>>
    /\ ReportReturned
    /\ Filenames(report.value[1].files) = <<Fr>>
    /\ aiRequest.files = <<Fr>>

\* C20: analyzePR splits the file list into the files named
\* ghost/i18n/locales/<anything>.json and all others; only files of the first
\* set are parsed or sent to the model, every file of the second set is in
\* report.skippedFiles, and summary.totalFiles = summary.i18nFiles +
\* summary.skippedFiles.  When the first set is empty analyzePR returns null
\* without a model call and without writing a report.
C20_FilesSplitByLocalePattern ==
    report.state # "idle" =>
        IF LocaleFilesAt = {}
        THEN /\ report = Returned(<<>>)
             /\ ~aiRequest.sent
             /\ reportFile = <<>>
        ELSE /\ ReportReturned
             /\ LET rep == report.value[1]
                 IN  /\ NamesOf(rep.files) \subseteq NamesAt(LocaleFilesAt)
                     /\ {aiRequest.files[k] : k \in 1..Len(aiRequest.files)}
                           \subseteq NamesAt(LocaleFilesAt)
                     /\ Filenames(rep.skippedFiles)
                           = [k \in 1..Cardinality(OtherFilesAt) |->
                                 prFiles[NthOf(OtherFilesAt, k)].filename]
                     /\ rep.summary.totalFiles = Len(prFiles)
                     /\ rep.summary.i18nFiles = Cardinality(LocaleFilesAt)
                     /\ rep.summary.skippedFiles = Cardinality(OtherFilesAt)
                     /\ rep.summary.totalFiles
                           = rep.summary.i18nFiles + rep.summary.skippedFiles

C20_Witness ==
    /\ prFiles = <<PRFile("ghost/i18n/locales/de/ghost.json.bak", <<TwoAddedPatch>>),
                   PRFile(De, <<TwoAddedPatch>>)>>
    /\ ReportReturned
    /\ Filenames(report.value[1].files) = <<De>>
    /\ Filenames(report.value[1].skippedFiles) = <<"ghost/i18n/locales/de/ghost.json.bak">>
    /\ report.value[1].summary.totalFiles = 2

\* the members of a sequence
Members(records) == {records[k] : k \in 1..Len(records)}

\* the report that postComments loaded
LoadedFiles == IF Len(reportFile) = 0 THEN <<>> ELSE reportFile[1].files

\* the added lines of a report file that a comment's diffPosition names
NamedLines(file, comment) ==
    {l \in Members(file.changedLines) :
        /\ l.type = "added"
        /\ comment.diffPosition = Num(l.diffPosition)}

\* C13: every line comment postComments prepares or posts has the anchor
\* path = the file's filename, line = the fileLineNumber of the changedLines
\* entry of that file whose diffPosition is the comment's diffPosition,
\* side = RIGHT; no comment goes to a line number that is not the new-file
\* line of an added line of that file.
C13_PostedAnchorIsAddedLine ==
    LET prepared == IF postCall.state = "returned" THEN Members(postCall.value) ELSE {}
    IN  \A p \in prepared \cup Members(posted) :
            /\ p.side = "RIGHT"
            /\ \E file \in Members(LoadedFiles) :
                  /\ p.path = file.filename
                  /\ \E comment \in Members(file.comments) :
                        \E l \in NamedLines(file, comment) : p.line = l.fileLineNumber

C13_Witness ==
    /\ postCall.state = "returned"
    /\ Len(LoadedFiles) = 2
    /\ LoadedFiles[1].comments
          = <<Comment(De, Num(4), Str("error")), Comment(De, Num(3), Str("warning"))>>
    /\ [k \in 1..Len(posted) |-> <<posted[k].path, posted[k].line>>]
          = <<<<De, 3>>, <<De, 2>>, <<Fr, 2>>>>

\* a comment whose diffPosition is the position of an entry of the file's
\* changedLines with a line number above 0
HasLine(file, comment) ==
    \E l \in NamedLines(file, comment) : l.fileLineNumber > 0

\* the comments of a file that have a line, and those among them without a
\* type to format
WithLineAt(file) == {c \in 1..Len(file.comments) : HasLine(file, file.comments[c])}
UnformattableAt(file) == {c \in WithLineAt(file) : file.comments[c].type.t # "string"}

\* C14: a comment whose diffPosition has no entry in the file's
\* diffPosition-to-line map, or maps to no number above 0, is skipped: it is not
\* posted and raises no error, and the other comments of that file and of the
\* other files are still prepared, one line comment each.
C14_UnmappedCommentIsSkipped ==
    (postCall.state # "idle" /\ Len(reportFile) = 1
        /\ \A file \in Members(LoadedFiles) : UnformattableAt(file) = {}) =>
        /\ postCall.state = "returned"
        /\ \A file \in Members(LoadedFiles) :
              Cardinality({k \in 1..Len(postCall.value) :
                              postCall.value[k].path = file.filename})
                  = Cardinality(WithLineAt(file))

C14_Witness ==
    /\ postCall.state = "returned"
    /\ Len(LoadedFiles) = 2
    /\ LoadedFiles[1].comments
          = <<Comment(De, Num(9), Str("info")), Comment(De, Num(3), Str("warning"))>>
    /\ [k \in 1..Len(postCall.value) |-> <<postCall.value[k].path, postCall.value[k].line>>]
          = <<<<De, 2>>, <<Fr, 2>>>>

\* C19: comments are posted only by `post`, or by `review` without --dry-run
\* after analyzePR returned a report: `analyze` never calls postComments,
\* with or without --dry-run, and in `review` postComments starts only when
\* analyzePR has returned and the report it returned is the one on disk.
C19_PostingOnlyByPostOrReview ==
    /\ (postCall.state # "idle" \/ posted # <<>>) =>
          \/ command.name = "post"
          \/ /\ command.name = "review"
             /\ ~command.dryRun
             /\ ReportReturned
             /\ reportFile = report.value
    /\ pc = "posting" =>
          /\ command.name = "review"
          /\ ~command.dryRun
          /\ ReportReturned
          /\ reportFile = report.value

C19_Witness ==
    /\ command = [name |-> "review", dryRun |-> FALSE]
    /\ pc = "done"
    /\ ReportReturned
    /\ postCall.state = "returned"
    /\ Len(posted) = 2

-----------------------------------------------------------------------------
\* the places of the request log where an operation was asked for
OpsAt(name) == {k \in 1..Len(trace) : trace[k].op = name}

\* C21: one run of analyzePR makes at most one call of the review model,
\* whatever the number of analysed files, and none when no analysed file has an
\* added line; it asks for the context document at most once, and before any
\* file is parsed.
C21_OneModelCallPerRun ==
    report.state # "idle" =>
        /\ Cardinality(OpsAt("chat.completions.parse")) <= 1
        /\ Len(AnalysedFiles) = 0 => OpsAt("chat.completions.parse") = {}
        /\ Cardinality(OpsAt("getOriginalFileContent")) <= 1
        /\ \A c \in OpsAt("getOriginalFileContent"), p \in OpsAt("extractChangedLines") :
              c < p

\* a run over two locale files with added lines: two files parsed, one model call
C21_Witness ==
    /\ ReportReturned
    /\ Len(AnalysedFiles) = 2
    /\ Cardinality(OpsAt("extractChangedLines")) = 2
    /\ Cardinality(OpsAt("getOriginalFileContent")) = 1
    /\ Cardinality(OpsAt("chat.completions.parse")) = 1

-----------------------------------------------------------------------------
(* C22: a call of getOriginalFileContent made while the cache file is younger
   than 24 hours returns the cached content, does not contact the host and
   leaves the cache file alone; a call made when the file is 24 hours old or
   older, or absent, contacts the host, and when the host answers, returns
   the answer and rewrites the cache file with it at the current time. *)

FetchesIn(log) == Len(SelectSeq(log, LAMBDA entry : entry.op = "repos.getContent"))

C22_CacheServedWithinExpiry ==
    [][context'.n = context.n + 1 =>
          IF Len(cacheFile) > 0 /\ now - cacheFile[1].mtime < 24
          THEN /\ context'.value = <<cacheFile[1].content>>
               /\ ~context'.fetched
               /\ FetchesIn(trace') = FetchesIn(trace)
               /\ cacheFile' = cacheFile
          ELSE /\ context'.fetched
               /\ FetchesIn(trace') = FetchesIn(trace) + 1
               /\ Len(context'.value) > 0 =>
                      cacheFile' = <<[content |-> context'.value[1], mtime |-> now]>>]_vars

\* a first call fetched, a second one was served from the cache at the age of
\* 23 hours, and a third one fetched again at the age of 24 hours
C22_Witness ==
    /\ context.n = 3
    /\ now = 24
    /\ Len(cacheFile) > 0 /\ cacheFile[1].mtime = 24
    /\ context.value = <<cacheFile[1].content>>
    /\ [k \in 1..Len(trace) |-> trace[k].op] =
          <<"getOriginalFileContent", "repos.getContent", "getOriginalFileContent",
            "getOriginalFileContent", "repos.getContent">>

-----------------------------------------------------------------------------
\* the requests a step adds to the log
NewRequests == SubSeq(trace', Len(trace) + 1, Len(trace'))

AllRequestsSucceeded == \A k \in 1..Len(trace) : trace[k].ok

PendingReviews == {k \in 1..Len(reviews) : reviews[k].state = "PENDING"}

PendingWithComments == {k \in PendingReviews : reviews[k].comments # <<>>}

\* C23: the clean-pending command deletes the entire pending review of the
\* pull request, including the comments already posted to it: after it has
\* run, with every request answered, no pending review with comments remains.
C23_CleanPendingDeletesReview ==
    (command.name = "clean-pending" /\ pc = "done" /\ AllRequestsSucceeded) =>
        PendingWithComments = {}

CleanPendingStep == command.name = "clean-pending" /\ pc = "start" /\ pc' # "start"

DeletesAt == {k \in 1..Len(NewRequests) : NewRequests[k].op = "deletePendingReview"}

C26_SuccessOnlyIfAllRequestsSucceeded ==
    (command.name = "post" /\ pc # "start") =>
        /\ pc = "done" => AllRequestsSucceeded
        /\ ~AllRequestsSucceeded => pc = "exit1"

-----------------------------------------------------------------------------
PostStep == postCall = Idle /\ postCall' # Idle

RequestsAt(name) == {k \in 1..Len(NewRequests) : NewRequests[k].op = name}

ListedReviews == \E k \in RequestsAt("listReviews") : NewRequests[k].ok

FirstPending == CHOOSE p \in PendingReviews : \A q \in PendingReviews : p <= q

\* the overall comment of the loaded report as the review body shows it
OverallText ==
    reportFile[1].overallComment
        \o "\n\n---\n*Drafted with my new i18n tooling - feedback welcome*"

\* the k-th request of the step that adds a line comment
NthAdded(k) == NewRequests[NthOf(RequestsAt("createReviewComment"), k)]

\* C25: postComments never creates a second review when one is pending.  When
\* the listed reviews hold a PENDING one, it makes no createReview request, adds
\* the prepared line comments to that review one request at a time, in report
\* order and with that review's commit_id, stopping at the first request that
\* fails, and updates the review body (old body, separator, new overall
\* comment) only after every line comment was added.  Otherwise it makes
\* exactly one createReview request, carrying all the line comments and the
\* head commit of the pull request, and no event.
C25_NoSecondReviewWhenPending ==
    [][(PostStep /\ ListedReviews) =>
          IF PendingReviews # {}
          THEN /\ RequestsAt("createReview") = {}
               /\ Cardinality(RequestsAt("createReviewComment")) <= Len(postCall'.value)
               /\ \A k \in 1..Cardinality(RequestsAt("createReviewComment")) :
                     /\ NthAdded(k).args =
                           [body |-> postCall'.value[k].body,
                            commit_id |-> reviews[FirstPending].commit_id,
                            path |-> postCall'.value[k].path,
                            line |-> postCall'.value[k].line,
                            side |-> "RIGHT"]
                     /\ k < Cardinality(RequestsAt("createReviewComment")) => NthAdded(k).ok
               /\ Cardinality(RequestsAt("updateReview")) <= 1
               /\ \A u \in RequestsAt("updateReview") :
                     /\ Cardinality(RequestsAt("createReviewComment")) = Len(postCall'.value)
                     /\ \A k \in RequestsAt("createReviewComment") :
                           k < u /\ NewRequests[k].ok
                     /\ NewRequests[u].args =
                           [review_id |-> reviews[FirstPending].id,
                            body |-> IF reviews[FirstPending].body = "" THEN OverallText
                                     ELSE reviews[FirstPending].body \o "\n\n---\n"
                                              \o OverallText]
          ELSE /\ RequestsAt("createReviewComment") = {}
               /\ RequestsAt("updateReview") = {}
               /\ Cardinality(RequestsAt("createReview")) = 1
               /\ \A k \in RequestsAt("createReview") :
                     /\ NewRequests[k].args.comments = postCall'.value
                     /\ NewRequests[k].args.commit_id = "sha-head"
                     /\ NewRequests[k].args.event = <<>>]_vars

\* two line comments were added to the pending review, then its body updated
C25_Witness ==
    /\ postCall.state = "returned"
    /\ Len(postCall.value) = 2
    /\ [k \in 1..Len(trace) |-> trace[k].op] =
          <<"fs.readFile", "pulls.get", "listReviews", "createReviewComment",
            "createReviewComment", "updateReview">>
    /\ AllRequestsSucceeded
    /\ PendingReviews # {}
    /\ Len(reviews[FirstPending].comments) = 3
    /\ Cardinality({k \in 1..Len(reviews) : reviews[k].state = "PENDING"}) = 1

-----------------------------------------------------------------------------
ReviewOps == {"listReviews", "createReview", "createReviewComment", "updateReview"}

\* the loaded report has no overall comment and no comment with a positive
\* numeric diff position
NothingToPostByPosition ==
    /\ Len(reportFile) = 1
    /\ reportFile[1].overallComment = ""
    /\ \A c \in ReportComments(reportFile[1]) :
          ~(c.diffPosition.t = "number" /\ c.diffPosition.n > 0)

\* C27: when the report yields no postable line comment and carries no overall
\* comment, postComments returns normally without listing reviews and without
\* any create or update request; stated here for the version of postComments
\* that anchors by diff position.
C27_NothingToPostReturnsEarly ==
    (postCall # Idle /\ NothingToPostByPosition) =>
        /\ postCall.state = "returned"
        /\ \A k \in 1..Len(trace) : trace[k].op \notin ReviewOps

-----------------------------------------------------------------------------
\* the text is a hunk, or a `diff --git` line and a hunk
StartsWithHunk ==
    \/ WellFormedHeader(PhysicalLines[1])
    \/ /\ Len(PhysicalLines) > 1
       /\ StartsWith(PhysicalLines[1], "diff --git")
       /\ WellFormedHeader(PhysicalLines[2])

FileLineNumbers(records) ==
    [k \in 1..Len(records) |-> records[k].fileLineNumber]

RECURSIVE MappedNewLines(_)
MappedNewLines(files) ==
    IF Len(files) = 0 THEN <<>>
    ELSE NewLines(files[1].lineMappings) \o MappedNewLines(Tail(files))

\* C28: all parsers give the same new-file line number to every added line of
\* a single-file patch: newLine of extractAddedLinesWithRelativeNumbers,
\* newLine of the lineMappings of parseDiff and fileLineNumber of the first
\* extractChangedLines of analyzer.js are equal, also for patches that start
\* with a hunk header, have empty lines or `\ No newline at end of file` lines.
C28_ParsersAgreeOnNewLine ==
    (/\ StartsWithHunk
     /\ addedLines.state = "returned"
     /\ changedLinesV1.state = "returned"
     /\ parsedFiles # Idle) =>
        /\ parsedFiles.state = "returned"
        /\ MappedNewLines(parsedFiles.value) = NewLines(addedLines.value)
        /\ FileLineNumbers(SelectSeq(changedLinesV1.value,
                                     LAMBDA line : line.type = "added"))
              = NewLines(addedLines.value)

-----------------------------------------------------------------------------
\* the review command has analysed and posted in one run, so postComments read
\* the report as analyzePR wrote it
ReviewedAndPosted ==
    /\ command.name = "review"
    /\ ReportReturned
    /\ postCall # Idle
    /\ reportFile = report.value

\* C29: no comment is lost between analysis and posting: for a report written
\* by analyzePR and read back unchanged by postComments, every comment stored
\* under a file becomes a line comment with a new-file line >= 1, so the number
\* of line comments prepared for posting equals summary.totalComments.
C29_NoCommentLost ==
    ReviewedAndPosted =>
        /\ postCall.state = "returned"
        /\ Len(postCall.value) = report.value[1].summary.totalComments
        /\ \A k \in 1..Len(postCall.value) : postCall.value[k].line >= 1

====
